---- MODULE Spec2Model ----
(***************************************************************************)
(* Healthcase symptom checker: the validators, the emergency rule engine   *)
(* and the callers of SymptomAnalyzer.analyze_symptoms.                    *)
(*                                                                         *)
(* Python values are tagged records.  A number is kept in tenths, so that  *)
(* 0.5, 1.0 and 150.5 are distinct values; a string is a sequence of       *)
(* one-character strings.                                                  *)
(***************************************************************************)
EXTENDS Integers, Sequences, FiniteSets, TLC

VARIABLES
    call,       \* the field validator under call: [fn, name, arg]
    ret,        \* its outcome: [ok, val, err, label]
    raw,        \* the raw record handed to the core: [basic_info, symptoms, test_results]
    validated,  \* outcome of validate_user_data: [state, rec, err, label, field]
    alert,      \* outcome of check_emergency: [state, is_emergency, reasons, err]
    pc,         \* position of the running entry point
    entry,      \* the entry point that runs: "api", "cli", "direct", "legacy_ui" or "legacy_main"
    gen,        \* the analyze_symptoms generator: [pc, input, data, err]
    llm,        \* LLMService.generate_analysis: [use_mock, primary_ok, backend, backend_name, sent, fallback_calls]
    llmCalls,   \* invocations of llm_service.generate_analysis
    yielded,    \* fragments the analysis has yielded to its consumer
    response,   \* what the caller finally receives: [kind, status, error, emergency, reasons]
    requests,   \* RateLimiter.requests: client id -> list of timestamps
    now,        \* the clock read by time.time()
    threads,    \* the request threads inside is_allowed: thread -> [pc, current_time, kept]
    admitted,   \* the timestamps of the requests is_allowed admitted: client id -> list
    ui          \* a desktop window: [is_loading, button, worker, queue, e_bound]

vars == <<call, ret, raw, validated, alert, pc, entry, gen, llm, llmCalls, yielded,
          response, requests, now, threads, admitted, ui>>

----------------------------------------------------------------------------
(* Python values *)

None == [t |-> "none", b |-> FALSE, n |-> 0, s |-> <<>>]
BoolV(x) == [t |-> "bool", b |-> x, n |-> 0, s |-> <<>>]
IntV(x) == [t |-> "int", b |-> FALSE, n |-> x * 10, s |-> <<>>]
FloatV(tenths) == [t |-> "float", b |-> FALSE, n |-> tenths, s |-> <<>>]
StrV(chars) == [t |-> "str", b |-> FALSE, n |-> 0, s |-> chars]

IsNone(v) == v.t = "none"
IsStr(v) == v.t = "str"
IsBool(v) == v.t = "bool"
\* bool is a subclass of int: True and False take part in arithmetic as 1 and 0
IsNumeric(v) == v.t \in {"int", "float", "bool"}
NumOf(v) == IF v.t = "bool" THEN (IF v.b THEN 10 ELSE 0) ELSE v.n

\* bool(v): None, False, zero and the empty string are false
Truthy(v) ==
    IF IsNone(v) THEN FALSE
    ELSE IF IsBool(v) THEN v.b
    ELSE IF IsStr(v) THEN v.s # <<>>
    ELSE v.n # 0

\* a == b
PyEq(a, b) ==
    IF IsNumeric(a) /\ IsNumeric(b) THEN NumOf(a) = NumOf(b)
    ELSE IF IsStr(a) /\ IsStr(b) THEN a.s = b.s
    ELSE IsNone(a) /\ IsNone(b)


----------------------------------------------------------------------------
(* Characters and strings *)

Digits == <<"0", "1", "2", "3", "4", "5", "6", "7", "8", "9">>
LowerLetters == <<"a", "b", "c", "d", "e", "f", "g", "h", "i", "j", "k", "l", "m",
                  "n", "o", "p", "q", "r", "s", "t", "u", "v", "w", "x", "y", "z">>
UpperLetters == <<"A", "B", "C", "D", "E", "F", "G", "H", "I", "J", "K", "L", "M",
                  "N", "O", "P", "Q", "R", "S", "T", "U", "V", "W", "X", "Y", "Z">>

Range(f) == {f[i] : i \in DOMAIN f}

\* the lists a mapping holds, one after the other
RECURSIVE FlattenLists(_)
FlattenLists(d) ==
    IF DOMAIN d = {} THEN <<>>
    ELSE LET k == CHOOSE x \in DOMAIN d : TRUE
         IN d[k] \o FlattenLists([x \in DOMAIN d \ {k} |-> d[x]])
IndexOf(f, c) == CHOOSE i \in DOMAIN f : f[i] = c

DigitChars == Range(Digits)
LowerChars == Range(LowerLetters)
UpperChars == Range(UpperLetters)
ToLower == [c \in UpperChars |-> LowerLetters[IndexOf(UpperLetters, c)]]
ToUpper == [c \in LowerChars |-> UpperLetters[IndexOf(LowerLetters, c)]]
DigitValues == [c \in DigitChars |-> IndexOf(Digits, c) - 1]

IsDigit(c) == c \in DigitChars
DigitVal(c) == DigitValues[c]
\* the tab stands for the control characters, which str.split() and \s count as whitespace
IsSpace(c) == c \in {" ", "\t"}
IsControl(c) == c \in {"\t"}
LowerChar(c) == IF c \in UpperChars THEN ToLower[c] ELSE c
UpperChar(c) == IF c \in LowerChars THEN ToUpper[c] ELSE c
IsWordChar(c) == IsDigit(c) \/ c \in LowerChars \/ c \in UpperChars \/ c = "_"

Lower(s) == [i \in 1..Len(s) |-> LowerChar(s[i])]
Upper(s) == [i \in 1..Len(s) |-> UpperChar(s[i])]

Least(S) == CHOOSE i \in S : \A j \in S : i <= j
Greatest(S) == CHOOSE i \in S : \A j \in S : i >= j
NonSpaces(s) == {i \in 1..Len(s) : ~IsSpace(s[i])}
LStrip(s) == IF NonSpaces(s) = {} THEN <<>> ELSE SubSeq(s, Least(NonSpaces(s)), Len(s))
RStrip(s) == IF NonSpaces(s) = {} THEN <<>> ELSE SubSeq(s, 1, Greatest(NonSpaces(s)))
Strip(s) == RStrip(LStrip(s))

\* s.split(): the maximal runs of non-whitespace characters, in order
RECURSIVE Split(_)
Split(s) ==
    LET t == LStrip(s) IN
    IF t = <<>> THEN <<>>
    ELSE LET ends == {i \in 1..Len(t) : i = Len(t) \/ IsSpace(t[i + 1])}
             e == Least(ends)
         IN <<SubSeq(t, 1, e)>> \o Split(SubSeq(t, e + 1, Len(t)))

\* ' '.join(words)
RECURSIVE JoinSpace(_)
JoinSpace(words) ==
    IF words = <<>> THEN <<>>
    ELSE IF Len(words) = 1 THEN words[1]
    ELSE words[1] \o <<" ">> \o JoinSpace(Tail(words))

Rep(c, k) == [i \in 1..k |-> c]

\* str(n) of a non-negative int
RECURSIVE NatToStr(_)
NatToStr(k) == IF k < 10 THEN <<Digits[k + 1]>> ELSE NatToStr(k \div 10) \o <<Digits[(k % 10) + 1]>>

\* str(v)
PyStr(v) ==
    CASE v.t = "none" -> <<"N", "o", "n", "e">>
      [] v.t = "bool" -> IF v.b THEN <<"T", "r", "u", "e">> ELSE <<"F", "a", "l", "s", "e">>
      [] v.t = "str" -> v.s
      [] v.t = "int" ->
           IF v.n < 0 THEN <<"-">> \o NatToStr((0 - v.n) \div 10) ELSE NatToStr(v.n \div 10)
      [] OTHER ->
           LET a == IF v.n < 0 THEN 0 - v.n ELSE v.n IN
           (IF v.n < 0 THEN <<"-">> ELSE <<>>) \o NatToStr(a \div 10) \o <<".">> \o NatToStr(a % 10)

----------------------------------------------------------------------------
(* Outcomes of a field validator *)

Ok(v) == [ok |-> TRUE, val |-> v, err |-> "", label |-> ""]
Raise(e, l) == [ok |-> FALSE, val |-> None, err |-> e, label |-> l]

\* value of a run of decimal digits.  A magnitude beyond 10^7 is kept as 10^7:
\* every threshold of the program lies far below it.
RECURSIVE ShortDigitsVal(_)
ShortDigitsVal(s) ==
    IF s = <<>> THEN 0 ELSE ShortDigitsVal(SubSeq(s, 1, Len(s) - 1)) * 10 + DigitVal(s[Len(s)])
DigitsVal(s) ==
    LET significant == {i \in 1..Len(s) : s[i] # "0"}
        t == IF significant = {} THEN <<>> ELSE SubSeq(s, Least(significant), Len(s))
    IN IF Len(t) > 7 THEN 10000000 ELSE ShortDigitsVal(t)

AllDigits(s) == \A i \in 1..Len(s) : IsDigit(s[i])

\* float(str): surrounding whitespace is ignored, a sign may lead, and the
\* digits hold at most one point.  Fractional digits past the first are below
\* the resolution of tenths; the strings of the model carry at most one.
ParseFloat(s) ==
    LET t == Strip(s)
        neg == t # <<>> /\ t[1] = "-"
        u == IF t # <<>> /\ t[1] \in {"-", "+"} THEN Tail(t) ELSE t
        dots == {i \in 1..Len(u) : u[i] = "."}
        p == IF dots = {} THEN Len(u) + 1 ELSE CHOOSE i \in dots : TRUE
        ip == SubSeq(u, 1, p - 1)
        fp == SubSeq(u, p + 1, Len(u))
        wellFormed == /\ Cardinality(dots) <= 1
                      /\ AllDigits(ip) /\ AllDigits(fp)
                      /\ Len(ip) + Len(fp) >= 1
        mag == DigitsVal(ip) * 10 + (IF fp = <<>> THEN 0 ELSE DigitVal(fp[1]))
    IN IF wellFormed THEN Ok(FloatV(IF neg THEN 0 - mag ELSE mag))
       ELSE Raise("ValueError", "")

\* float(v)
PyFloat(v) ==
    CASE v.t = "none" -> Raise("TypeError", "")
      [] v.t = "str" -> ParseFloat(v.s)
      [] OTHER -> Ok(FloatV(NumOf(v)))

\* int(x) of a float: truncation toward zero
PyIntOfFloat(x) ==
    IF x.n >= 0 THEN IntV(x.n \div 10) ELSE IntV(0 - ((0 - x.n) \div 10))

----------------------------------------------------------------------------
(* exceptions.py: the class of each error and the classes it derives from *)

ExceptionBases ==
    [ValidationError |-> {"ValidationError", "HealthcaseError", "Exception"},
     SecurityError |-> {"SecurityError", "HealthcaseError", "Exception"},
     EmergencyDetectedError |-> {"EmergencyDetectedError", "HealthcaseError", "Exception"},
     DataProcessingError |-> {"DataProcessingError", "HealthcaseError", "Exception"},
     APIError |-> {"APIError", "HealthcaseError", "Exception"},
     NetworkError |-> {"NetworkError", "APIError", "HealthcaseError", "Exception"},
     ValueError |-> {"ValueError", "Exception"},
     TypeError |-> {"TypeError", "Exception"}]

\* whether an `except cls` clause catches an error of class err
Catches(cls, err) == err \in DOMAIN ExceptionBases /\ cls \in ExceptionBases[err]

----------------------------------------------------------------------------
(* config.py *)

MAX_AGE == 150
MIN_AGE == 0
MAX_WEIGHT == 500
MIN_WEIGHT == 1
MAX_TEMPERATURE == 50
MIN_TEMPERATURE == 30
\* the max_length validate_duration hands to sanitize_string
DURATION_MAX_LENGTH == 50

----------------------------------------------------------------------------
(* validators.py *)

\* re.search(r'<[^>]*>', s)
HasHtmlTag(s) ==
    \E i \in 1..Len(s) :
        /\ s[i] = "<"
        /\ \E j \in (i + 1)..Len(s) :
            /\ s[j] = ">"
            /\ \A k \in (i + 1)..(j - 1) : s[k] # ">"

\* re.search(pat, s, re.IGNORECASE) for a literal pat
ContainsIgnoreCase(s, pat) ==
    \E i \in 1..(Len(s) - Len(pat) + 1) :
        \A m \in 1..Len(pat) : LowerChar(s[i + m - 1]) = LowerChar(pat[m])

\* re.search(r'on\w+\s*=', s, re.IGNORECASE)
HasEventHandler(s) ==
    \E i \in 1..(Len(s) - 1) :
        /\ LowerChar(s[i]) = "o" /\ LowerChar(s[i + 1]) = "n"
        /\ \E j \in (i + 2)..Len(s) :
            /\ \A m \in (i + 2)..j : IsWordChar(s[m])
            /\ \E k \in j..(Len(s) - 1) :
                /\ \A m \in (j + 1)..k : IsSpace(s[m])
                /\ s[k + 1] = "="

\* re.search(r'[\x00-\x1f\x7f-\x9f]', s)
HasControlChar(s) == \E i \in 1..Len(s) : IsControl(s[i])

Suspicious(s) ==
    \/ HasHtmlTag(s)
    \/ ContainsIgnoreCase(s, <<"j", "a", "v", "a", "s", "c", "r", "i", "p", "t", ":">>)
    \/ HasEventHandler(s)
    \/ HasControlChar(s)

\* the whitespace normalisation of sanitize_string
CollapseWhitespace(s) == JoinSpace(Split(s))

\* the length limit of sanitize_string (max_length 0 stands for None)
Truncate(s, max_length) ==
    IF max_length # 0 /\ Len(s) > max_length THEN SubSeq(s, 1, max_length) ELSE s

sanitize_string(input_str, max_length) ==
    IF ~IsStr(input_str) THEN Raise("ValidationError", "Input")
    ELSE IF Suspicious(input_str.s) THEN Raise("SecurityError", "input")
    ELSE Ok(StrV(Truncate(CollapseWhitespace(input_str.s), max_length)))

\* age is None or age == ""
IsBlank(v) == IsNone(v) \/ PyEq(v, StrV(<<>>))

\* the range check of validate_age on age_int
AgeInRange(age_int) ==
    IF ~(MIN_AGE * 10 <= age_int.n /\ age_int.n <= MAX_AGE * 10)
    THEN Raise("ValidationError", "Age")
    ELSE Ok(age_int)

\* the try block of validate_age, f being the outcome of float(age)
AgeOfFloat(f) ==
    IF ~f.ok THEN Raise("ValidationError", "Age") ELSE AgeInRange(PyIntOfFloat(f.val))

validate_age(age) ==
    IF IsBlank(age) THEN Ok(None) ELSE AgeOfFloat(PyFloat(age))

WeightInRange(n) == MIN_WEIGHT * 10 <= n /\ n <= MAX_WEIGHT * 10

\* the try block of validate_weight, f being the outcome of float(weight)
WeightOfFloat(f) ==
    IF ~f.ok THEN Raise("ValidationError", "Weight")
    ELSE IF ~WeightInRange(f.val.n) THEN Raise("ValidationError", "Weight")
    ELSE Ok(f.val)

validate_weight(weight) ==
    IF IsBlank(weight) THEN Ok(None) ELSE WeightOfFloat(PyFloat(weight))

\* the try block of validate_temperature, f being the outcome of float(temp)
TemperatureOfFloat(f) ==
    IF ~f.ok THEN Raise("ValidationError", "Temperature")
    ELSE IF ~(MIN_TEMPERATURE * 10 <= f.val.n /\ f.val.n <= MAX_TEMPERATURE * 10)
    THEN Raise("ValidationError", "Temperature")
    ELSE Ok(f.val)

validate_temperature(temp) ==
    IF IsBlank(temp) THEN Ok(None) ELSE TemperatureOfFloat(PyFloat(temp))

\* GENDER.match(gender_str) and what validate_gender does with it
GenderOf(gender_str) ==
    IF Lower(gender_str) \notin {<<"m">>, <<"f">>} THEN Raise("ValidationError", "Gender")
    ELSE Ok(StrV(gender_str))

validate_gender(gender) ==
    IF IsBlank(gender) THEN Ok(None) ELSE GenderOf(Upper(Strip(PyStr(gender))))

DurationUnits ==
    {<<"d", "a", "y">>, <<"d", "a", "y", "s">>, <<"w", "e", "e", "k">>, <<"w", "e", "e", "k", "s">>,
     <<"m", "o", "n", "t", "h">>, <<"m", "o", "n", "t", "h", "s">>,
     <<"h", "o", "u", "r">>, <<"h", "o", "u", "r", "s">>}

\* re.match(r'^(\d+\s*(days?|weeks?|months?|hours?)?)$', s, re.IGNORECASE)
MatchesDuration(s) ==
    \E i \in 1..Len(s) :
        /\ \A m \in 1..i : IsDigit(s[m])
        /\ \E j \in i..Len(s) :
            /\ \A m \in (i + 1)..j : IsSpace(s[m])
            /\ \/ j = Len(s)
               \/ Lower(SubSeq(s, j + 1, Len(s))) \in DurationUnits

\* s.isdigit()
IsDigitStr(s) == s # <<>> /\ AllDigits(s)

\* validate_duration after sanitize_string returned or raised
DurationOf(san) ==
    IF ~san.ok THEN san
    ELSE IF ~MatchesDuration(san.val.s) /\ ~IsDigitStr(san.val.s)
    THEN Raise("ValidationError", "Duration")
    ELSE san

validate_duration(duration) ==
    IF IsBlank(duration) THEN Ok(None)
    ELSE DurationOf(sanitize_string(StrV(PyStr(duration)), DURATION_MAX_LENGTH))

\* COUGH_TYPE.match(cough_str) and what validate_cough_type does with it
CoughTypeOf(cough_str) ==
    IF cough_str \notin {<<"d", "r", "y">>, <<"p", "r", "o", "d", "u", "c", "t", "i", "v", "e">>}
    THEN Raise("ValidationError", "Cough type")
    ELSE Ok(StrV(cough_str))

validate_cough_type(cough_type) ==
    IF IsBlank(cough_type) THEN Ok(None) ELSE CoughTypeOf(Lower(Strip(PyStr(cough_type))))

\* the string branch of validate_boolean, value being stripped and lowered
BooleanOfWord(value) ==
    IF value \in {<<"y">>, <<"y", "e", "s">>, <<"t", "r", "u", "e">>, <<"1">>} THEN Ok(BoolV(TRUE))
    ELSE IF value \in {<<"n">>, <<"n", "o">>, <<"f", "a", "l", "s", "e">>, <<"0">>} THEN Ok(BoolV(FALSE))
    ELSE Raise("ValidationError", "Value")

validate_boolean(value) ==
    IF IsBool(value) THEN Ok(value)
    ELSE IF IsStr(value) THEN BooleanOfWord(Lower(Strip(value.s)))
    ELSE Raise("ValidationError", "Value")

BooleanTests == {"Malaria", "Dengue", "Typhoid"}

\* float(value) of the numeric branch of validate_test_result
NumericTestResult(f, test_name) ==
    IF ~f.ok THEN Raise("ValidationError", test_name) ELSE Ok(f.val)

\* the string branch of the boolean tests, value being stripped and lowered
BooleanTestOfWord(value, test_name) ==
    IF value \in {<<"p", "o", "s", "i", "t", "i", "v", "e">>, <<"t", "r", "u", "e">>, <<"1">>, <<"y", "e", "s">>}
    THEN Ok(BoolV(TRUE))
    ELSE IF value \in {<<"n", "e", "g", "a", "t", "i", "v", "e">>, <<"f", "a", "l", "s", "e">>, <<"0">>, <<"n", "o">>}
    THEN Ok(BoolV(FALSE))
    ELSE Raise("ValidationError", test_name)

validate_test_result(value, test_name) ==
    IF IsBlank(value) THEN Ok(None)
    ELSE IF test_name \in BooleanTests THEN
         IF IsStr(value) THEN BooleanTestOfWord(Lower(Strip(value.s)), test_name)
         ELSE IF IsBool(value) THEN Ok(value)
         ELSE Raise("ValidationError", test_name)
    ELSE NumericTestResult(PyFloat(value), test_name)

----------------------------------------------------------------------------
(* The record: three sections, each a mapping from the field names that are *)
(* present to their values.  A missing section reads as the empty mapping.  *)

BasicFields == <<"age", "gender", "weight", "temperature", "duration", "chronic_diseases">>
SymptomFlags ==
    <<"fever", "fatigue", "cough", "headache", "body_pain", "nausea", "vomiting",
      "diarrhea", "rash", "sore_throat", "shortness_of_breath", "chest_pain",
      "confusion", "recent_travel", "medication", "appetite_change", "urine_change",
      "weight_loss", "night_sweats", "exposure">>
SymptomFields == SymptomFlags \o <<"fever_duration", "cough_type">>
TestNames ==
    <<"WBC", "Platelets", "Hemoglobin", "Blood_Sugar", "ALT", "Creatinine",
      "Malaria", "Dengue", "Typhoid">>
NumericTests == Range(TestNames) \ BooleanTests

EmptySection == [f \in {} |-> None]
EmptyRecord == [basic_info |-> EmptySection, symptoms |-> EmptySection, test_results |-> EmptySection]

\* d.get(key)
Get(d, key) == IF key \in DOMAIN d THEN d[key] ELSE None
\* d.get(key, default)
GetDefault(d, key, default) == IF key \in DOMAIN d THEN d[key] ELSE default

\* the fields of validate_user_data in the order the code evaluates them
FieldOrder ==
    [i \in 1..Len(BasicFields) |-> [section |-> "basic_info", name |-> BasicFields[i]]]
    \o [i \in 1..Len(SymptomFields) |-> [section |-> "symptoms", name |-> SymptomFields[i]]]
    \o [i \in 1..Len(TestNames) |-> [section |-> "test_results", name |-> TestNames[i]]]

\* the validator call validate_user_data makes for one field
ValidateField(data, fld) ==
    LET sec == data[fld.section]
        name == fld.name
    IN CASE fld.section = "basic_info" /\ name = "age" -> validate_age(Get(sec, name))
         [] fld.section = "basic_info" /\ name = "gender" -> validate_gender(Get(sec, name))
         [] fld.section = "basic_info" /\ name = "weight" -> validate_weight(Get(sec, name))
         [] fld.section = "basic_info" /\ name = "temperature" -> validate_temperature(Get(sec, name))
         [] fld.section = "basic_info" /\ name = "duration" -> validate_duration(Get(sec, name))
         [] fld.section = "basic_info" /\ name = "chronic_diseases" ->
                validate_boolean(GetDefault(sec, name, BoolV(FALSE)))
         [] fld.section = "symptoms" /\ name = "fever_duration" -> validate_age(Get(sec, name))
         [] fld.section = "symptoms" /\ name = "cough_type" -> validate_cough_type(Get(sec, name))
         [] fld.section = "symptoms" /\ name \in Range(SymptomFlags) ->
                validate_boolean(GetDefault(sec, name, BoolV(FALSE)))
         [] OTHER -> validate_test_result(Get(sec, name), name)

NotValidated == [state |-> "none", rec |-> EmptyRecord, err |-> "", label |-> "", field |-> ""]

\* validate_user_data: the canonical record, or the error of the first field
\* (in evaluation order) whose validator raises
FirstRaised(out, bad) ==
    LET first == CHOOSE i \in bad : \A j \in bad : i <= j
    IN [state |-> "raised", rec |-> EmptyRecord, err |-> out[first].err,
        label |-> out[first].label, field |-> FieldOrder[first].name]

\* the dictionary validate_user_data builds from its validators' outcomes, out[i]
\* being the outcome for FieldOrder[i]
ValidatedFrom(out, bad) ==
    IF bad = {}
       THEN [state |-> "ok",
             rec |-> [basic_info |-> [f \in Range(BasicFields) |->
                                          out[IndexOf(BasicFields, f)].val],
                      symptoms |-> [f \in Range(SymptomFields) |->
                                          out[Len(BasicFields) + IndexOf(SymptomFields, f)].val],
                      test_results |-> [f \in Range(TestNames) |->
                                          out[Len(BasicFields) + Len(SymptomFields) + IndexOf(TestNames, f)].val]],
             err |-> "", label |-> "", field |-> ""]
       ELSE FirstRaised(out, bad)

Raised(out) == {i \in DOMAIN out : ~out[i].ok}

OutcomesOf(out) == ValidatedFrom(out, Raised(out))

validate_user_data(data) ==
    OutcomesOf([i \in 1..Len(FieldOrder) |-> ValidateField(data, FieldOrder[i])])

----------------------------------------------------------------------------
(* logic.py: SymptomAnalyzer, the emergency rules *)

\* a field path is kept split at its dot: <<"symptoms", "fever">> is "symptoms.fever"
EMERGENCY_RULES ==
    << [conditions |-> << <<"temperature">>, ">", IntV(40) >>,
        reason |-> "High fever (>40C)"],
       [conditions |-> << <<"symptoms", "confusion">>, "==", BoolV(TRUE),
                          <<"symptoms", "fever">>, "==", BoolV(TRUE) >>,
        reason |-> "Fever with confusion"],
       [conditions |-> << <<"symptoms", "shortness_of_breath">>, "==", BoolV(TRUE),
                          <<"symptoms", "chest_pain">>, "==", BoolV(TRUE) >>,
        reason |-> "Shortness of breath with chest pain"] >>

\* an ordering comparison of two values: TypeError unless both are numbers
Ordering(actual_value, operator, expected_value) ==
    IF ~(IsNumeric(actual_value) /\ IsNumeric(expected_value)) THEN Raise("TypeError", "")
    ELSE LET a == NumOf(actual_value)
             e == NumOf(expected_value)
         IN Ok(BoolV(CASE operator = ">" -> a > e
                       [] operator = "<" -> a < e
                       [] operator = ">=" -> a >= e
                       [] OTHER -> a <= e))

\* the check_condition of a source without the `is not None` guards
CheckConditionUnguarded(actual_value, operator, expected_value) ==
    CASE operator = "==" -> Ok(BoolV(PyEq(actual_value, expected_value)))
      [] operator = "!=" -> Ok(BoolV(~PyEq(actual_value, expected_value)))
      [] operator \in {">", "<", ">=", "<="} -> Ordering(actual_value, operator, expected_value)
      [] OTHER -> Ok(BoolV(FALSE))

check_condition(actual_value, operator, expected_value) ==
    CASE operator = "==" -> Ok(BoolV(PyEq(actual_value, expected_value)))
      [] operator = "!=" -> Ok(BoolV(~PyEq(actual_value, expected_value)))
      [] operator \in {">", "<", ">=", "<="} ->
            IF IsNone(actual_value) THEN Ok(BoolV(FALSE))
            ELSE Ordering(actual_value, operator, expected_value)
      [] OTHER -> Ok(BoolV(FALSE))

\* the while loop of _evaluate_conditions from index i (0-based, as in the code)
RECURSIVE EvaluateFrom(_, _, _, _)
EvaluateFrom(conditions, symptoms, basic_info, i) ==
    IF ~(i < Len(conditions)) THEN Ok(BoolV(TRUE))
    ELSE IF i + 2 >= Len(conditions) THEN Ok(BoolV(TRUE))
    ELSE LET field_path == conditions[i + 1]
             operator == conditions[i + 2]
             expected_value == conditions[i + 3]
             actual_value ==
                 IF Len(field_path) > 1
                 THEN Get(IF field_path[1] = "symptoms" THEN symptoms ELSE basic_info, field_path[2])
                 ELSE Get(basic_info, field_path[1])
             c == check_condition(actual_value, operator, expected_value)
         IN IF ~c.ok THEN c
            ELSE IF ~c.val.b THEN Ok(BoolV(FALSE))
            ELSE EvaluateFrom(conditions, symptoms, basic_info, i + 3)

\* the loop of a source that stops after the first triple of a rule
EvaluateFirstTripleOnly(conditions, symptoms, basic_info) ==
    EvaluateFrom(SubSeq(conditions, 1, 3), symptoms, basic_info, 0)

evaluate_conditions(conditions, symptoms, basic_info) ==
    EvaluateFrom(conditions, symptoms, basic_info, 0)

NoAlert == [state |-> "none", is_emergency |-> FALSE, reasons |-> <<>>, err |-> ""]

\* the for loop of check_emergency over the rules from index k on
RECURSIVE CollectReasons(_, _, _, _)
CollectReasons(rules, symptoms, basic_info, k) ==
    IF k > Len(rules) THEN [ok |-> TRUE, reasons |-> <<>>]
    ELSE LET c == evaluate_conditions(rules[k].conditions, symptoms, basic_info)
             rest == CollectReasons(rules, symptoms, basic_info, k + 1)
         IN IF ~c.ok \/ ~rest.ok THEN [ok |-> FALSE, reasons |-> <<>>]
            ELSE [ok |-> TRUE,
                  reasons |-> (IF c.val.b THEN <<rules[k].reason>> ELSE <<>>) \o rest.reasons]

\* the alert check_emergency builds from the reasons it collected
AlertOf(collected) ==
    IF ~collected.ok
    THEN [state |-> "raised", is_emergency |-> FALSE, reasons |-> <<>>, err |-> "DataProcessingError"]
    ELSE [state |-> "ok", is_emergency |-> Len(collected.reasons) > 0,
          reasons |-> collected.reasons, err |-> ""]

\* a check_emergency that returns at the first rule that matches
CheckEmergencyFirstMatch(user_data) ==
    LET all == CollectReasons(EMERGENCY_RULES, user_data.symptoms, user_data.basic_info, 1)
    IN AlertOf(IF all.ok /\ Len(all.reasons) > 1
               THEN [ok |-> TRUE, reasons |-> <<all.reasons[1]>>] ELSE all)

check_emergency(user_data) ==
    AlertOf(CollectReasons(EMERGENCY_RULES, user_data.symptoms, user_data.basic_info, 1))

----------------------------------------------------------------------------
(* logic.py: MockAnalyzer.  The analysis text is kept as the list of the      *)
(* conditions it numbers and the list of the suggested actions it prints.    *)

Prediction(disease, confidence, reasoning) ==
    [disease |-> disease, confidence |-> confidence, reasoning |-> reasoning]

\* a < b; None and strings do not compare with numbers
PyLess(a, b) ==
    IF IsNumeric(a) /\ IsNumeric(b) THEN Ok(NumOf(a) < NumOf(b)) ELSE Raise("TypeError", "")

\* the first four operands of the Dengue rule
DengueFlags(symptoms, test_results) ==
    /\ Truthy(Get(symptoms, "fever")) /\ Truthy(Get(symptoms, "rash"))
    /\ Truthy(Get(symptoms, "recent_travel")) /\ Truthy(Get(test_results, "Dengue"))

\* the Dengue rule: the platelets comparison is evaluated only when the four
\* operands before it are true
DengueRule(symptoms, test_results) ==
    IF DengueFlags(symptoms, test_results)
    THEN PyLess(GetDefault(test_results, "Platelets", IntV(200000)), IntV(100000))
    ELSE Ok(FALSE)

\* a Viral Fever rule that does not look at the Malaria test
ViralFeverRuleWithoutMalaria(symptoms, test_results) ==
    /\ Truthy(Get(symptoms, "fever")) /\ Truthy(Get(symptoms, "fatigue"))
    /\ Truthy(Get(symptoms, "headache"))
    /\ ~Truthy(Get(test_results, "Dengue"))

ViralFeverRule(symptoms, test_results) ==
    /\ Truthy(Get(symptoms, "fever")) /\ Truthy(Get(symptoms, "fatigue"))
    /\ Truthy(Get(symptoms, "headache"))
    /\ ~Truthy(Get(test_results, "Dengue")) /\ ~Truthy(Get(test_results, "Malaria"))

MalariaRule(symptoms, test_results) ==
    /\ Truthy(Get(symptoms, "fever")) /\ Truthy(Get(symptoms, "recent_travel"))
    /\ Truthy(Get(test_results, "Malaria"))

TyphoidRule(symptoms, test_results) ==
    /\ Truthy(Get(symptoms, "fever")) /\ Truthy(Get(symptoms, "nausea"))
    /\ Truthy(Get(symptoms, "diarrhea")) /\ Truthy(Get(test_results, "Typhoid"))

\* the list the rules append to, in the order of the rules
MatchedRules(dengue, viral_fever, malaria, typhoid) ==
    (IF dengue THEN <<Prediction("Dengue", 75, "High fever, rash, low platelets, positive dengue test")>> ELSE <<>>)
    \o (IF viral_fever THEN <<Prediction("Viral Fever", 60, "Common flu-like symptoms with normal test results")>> ELSE <<>>)
    \o (IF malaria THEN <<Prediction("Malaria", 70, "Fever with travel history and positive malaria test")>> ELSE <<>>)
    \o (IF typhoid THEN <<Prediction("Typhoid", 65, "Fever with gastrointestinal symptoms and positive test")>> ELSE <<>>)

\* if not diseases: the default entry
WithDefault(diseases) ==
    IF diseases = <<>> THEN <<Prediction("Common Cold", 40, "Mild symptoms, could be various causes")>>
    ELSE diseases

PredictionsOf(dengue, symptoms, test_results) ==
    IF ~dengue.ok THEN dengue
    ELSE Ok(WithDefault(MatchedRules(dengue.val, ViralFeverRule(symptoms, test_results),
                                     MalariaRule(symptoms, test_results),
                                     TyphoidRule(symptoms, test_results))))

get_rule_based_predictions(symptoms, test_results, basic_info) ==
    PredictionsOf(DengueRule(symptoms, test_results), symptoms, test_results)

\* the predictions left in the order of the rules
UnsortedByConfidence(diseases) == diseases

RECURSIVE InsertByConfidence(_, _)
InsertByConfidence(sorted, x) ==
    IF sorted = <<>> THEN <<x>>
    ELSE IF Head(sorted).confidence >= x.confidence
    THEN <<Head(sorted)>> \o InsertByConfidence(Tail(sorted), x)
    ELSE <<x>> \o sorted

\* diseases.sort(key=lambda x: x[1], reverse=True)
RECURSIVE SortByConfidence(_)
SortByConfidence(diseases) ==
    IF diseases = <<>> THEN <<>>
    ELSE InsertByConfidence(SortByConfidence(SubSeq(diseases, 1, Len(diseases) - 1)),
                            diseases[Len(diseases)])

\* diseases[:3]
TopThree(diseases) == SubSeq(diseases, 1, IF Len(diseases) < 3 THEN Len(diseases) ELSE 3)

\* the lines under "Suggested Actions:"
SuggestedActions(hot, symptoms, test_results) ==
    (IF hot THEN <<"Monitor temperature closely">> ELSE <<>>)
    \o (IF Truthy(Get(symptoms, "fever")) THEN <<"Stay hydrated and rest">> ELSE <<>>)
    \o <<"Consult a healthcare professional for proper diagnosis">>
    \o (IF DOMAIN test_results # {} THEN <<"Follow up with additional tests if recommended">> ELSE <<>>)

\* get_mock_analysis once the predictions and basic_info.get("temperature", 0) > 39
\* are evaluated, in that order
MockAnalysisOf(diseases, hot, symptoms, test_results) ==
    IF ~diseases.ok THEN diseases
    ELSE IF ~hot.ok THEN hot
    ELSE Ok([conditions |-> TopThree(SortByConfidence(diseases.val)),
             actions |-> SuggestedActions(hot.val, symptoms, test_results)])

get_mock_analysis(user_data) ==
    MockAnalysisOf(get_rule_based_predictions(user_data.symptoms, user_data.test_results,
                                              user_data.basic_info),
                   PyLess(IntV(39), GetDefault(user_data.basic_info, "temperature", IntV(0))),
                   user_data.symptoms, user_data.test_results)

----------------------------------------------------------------------------
(* Inputs *)

\* how many pieces a string argument of a field validator is built from
MaxPieces == 2
\* how many fields of a raw record carry a value of their own
MaxFieldsSet == 2

Javascript == <<"j", "a", "v", "a", "s", "c", "r", "i", "p", "t", ":">>
ThreeDays == <<"3", " ", "d", "a", "y", "s">>
\* a duration one character short of the limit before its unit
LongDuration == Rep("1", DURATION_MAX_LENGTH - 1) \o <<" ", "d", "a", "y", "s">>

Pieces ==
    {<<"1">>, <<"3">>, <<"1", "5", "0">>, <<"-">>, <<".", "5">>,
     <<" ">>, <<" ", "d", "a", "y", "s">>, <<"W", "e", "e", "k">>, <<"x">>,
     <<"<", "b", ">">>, <<"\t">>, Javascript, <<"o", "n", "x", "=">>,
     Rep("1", DURATION_MAX_LENGTH),
     <<"y", "e", "s">>, <<"p", "o", "s", "i", "t", "i", "v", "e">>, <<"d", "r", "y">>, <<"m">>,
     <<"Y">>, <<"n">>}

RECURSIVE Concats(_)
Concats(k) ==
    IF k = 0 THEN {<<>>}
    ELSE LET shorter == Concats(k - 1) IN shorter \cup {p \o s : p \in Pieces, s \in shorter}

NumberArgs ==
    {IntV(x) : x \in {-1, 0, 1, 25, 150, 151, 500, 501}}
    \cup {FloatV(x) : x \in {-5, 5, 9, 10, 11, 257, 1505, 5000, 5001}}

FieldArgs ==
    {None, BoolV(TRUE), BoolV(FALSE)} \cup NumberArgs \cup {StrV(s) : s \in Concats(MaxPieces)}

NoCall == [fn |-> "none", name |-> "", arg |-> None]
NoRet == [ok |-> FALSE, val |-> None, err |-> "", label |-> ""]
NoResponse == [kind |-> "none", status |-> 0, error |-> "", emergency |-> FALSE, reasons |-> <<>>]
NoRequests == [c \in {} |-> <<>>]

\* the fields a raw record of the model may set, each with the values it may take
Candidates ==
    [basic_info |->
        [age |-> {IntV(25), FloatV(-5), IntV(200), StrV(<<"x">>)},
         weight |-> {IntV(1), IntV(70), FloatV(5)},
         temperature |-> {None, FloatV(385), IntV(41), IntV(55), StrV(<<"4", "1">>)},
         duration |-> {StrV(ThreeDays), StrV(LongDuration), StrV(<<"<", "b", ">">>),
                      StrV(<<"s", "o", "o", "n">>)},
         chronic_diseases |-> {BoolV(TRUE), None}],
     symptoms |->
        [fever |-> {BoolV(TRUE), StrV(<<"y">>), StrV(<<"m", "a", "y", "b", "e">>)},
         cough |-> {BoolV(TRUE), IntV(1)},
         confusion |-> {BoolV(TRUE), BoolV(FALSE), None},
         fever_duration |-> {IntV(3), IntV(200)},
         cough_type |-> {StrV(<<"D", "r", "y">>), StrV(<<"w", "e", "t">>)}],
     test_results |->
        [WBC |-> {IntV(6500), IntV(-5), StrV(<<"x">>)},
         Platelets |-> {IntV(80000), StrV(<<"-", "1">>)},
         Dengue |-> {BoolV(TRUE), StrV(<<"p", "o", "s", "i", "t", "i", "v", "e">>), StrV(<<"m", "a", "y", "b", "e">>)}]]

Sections == {"basic_info", "symptoms", "test_results"}
VariedFields == UNION {{<<sec, f>> : f \in DOMAIN Candidates[sec]} : sec \in Sections}
CandidateValues == UNION {UNION {Candidates[sec][f] : f \in DOMAIN Candidates[sec]} : sec \in Sections}

\* the raw record that sets exactly the fields of Fs, as asg assigns them
BuildRecord(Fs, asg) ==
    [sec \in Sections |-> [f \in {g \in DOMAIN Candidates[sec] : <<sec, g>> \in Fs} |-> asg[<<sec, f>>]]]

RecordsOver(Fs) ==
    {BuildRecord(Fs, asg) :
        asg \in {a \in [Fs -> CandidateValues] : \A p \in Fs : a[p] \in Candidates[p[1]][p[2]]}}

ValidationRecords ==
    UNION {RecordsOver(Fs) : Fs \in {S \in SUBSET VariedFields : Cardinality(S) <= MaxFieldsSet}}

\* the records of the emergency engine: every combination of the five fields
\* its rules read, each missing, null or set (a string stands for a value of
\* the wrong type)
TemperatureChoices == {None, FloatV(385), IntV(40), IntV(41), StrV(<<"4", "1">>)}
FlagChoices == {None, BoolV(TRUE), BoolV(FALSE), StrV(<<"y", "e", "s">>)}
RuleFlags == {"fever", "confusion", "shortness_of_breath", "chest_pain"}

EmergencyRecords ==
    {[basic_info |-> b, symptoms |-> s, test_results |-> EmptySection] :
        b \in {EmptySection} \cup {[f \in {"temperature"} |-> v] : v \in TemperatureChoices},
        s \in UNION {[D -> FlagChoices] : D \in SUBSET RuleFlags}}

----------------------------------------------------------------------------
(* The field validators, each called on one argument *)

NoGen == [pc |-> "none", input |-> EmptyRecord, data |-> EmptyRecord, err |-> ""]
NoLlm == [use_mock |-> FALSE, primary_ok |-> FALSE, fallback_ok |-> FALSE,
          backend |-> "none", backend_name |-> "none", sent |-> 0, in_handler |-> FALSE,
          primary_calls |-> 0, fallback_calls |-> 0, failed |-> {}, err |-> ""]

NoThreads == <<>>
NoAdmitted == <<>>
NoUi == [is_loading |-> FALSE, button |-> "normal", worker |-> "none", queue |-> <<>>,
         e_bound |-> FALSE]

\* no request thread is inside is_allowed and no window is open
NoLimiterNoWindow == threads = NoThreads /\ admitted = NoAdmitted /\ ui = NoUi

PipelineIdle ==
    /\ pc = "idle" /\ entry = "none" /\ gen = NoGen /\ llm = NoLlm
    /\ llmCalls = 0 /\ yielded = <<>>
    /\ response = NoResponse /\ requests = NoRequests /\ now = 0
    /\ NoLimiterNoWindow

InitFields ==
    /\ call \in {[fn |-> "none", name |-> "", arg |-> a] : a \in FieldArgs}
    /\ ret = NoRet
    /\ raw = EmptyRecord /\ validated = NotValidated /\ alert = NoAlert
    /\ PipelineIdle

CallValidator(fn, name, out) ==
    /\ call.fn = "none"
    /\ call' = [call EXCEPT !.fn = fn, !.name = name]
    /\ ret' = out
    /\ UNCHANGED <<raw, validated, alert, pc, entry, gen, llm, llmCalls, yielded, response, requests, now, threads, admitted, ui>>

ValidateAge == CallValidator("validate_age", "", validate_age(call.arg))
ValidateWeight == CallValidator("validate_weight", "", validate_weight(call.arg))
ValidateTemperature == CallValidator("validate_temperature", "", validate_temperature(call.arg))
ValidateGender == CallValidator("validate_gender", "", validate_gender(call.arg))
ValidateDuration == CallValidator("validate_duration", "", validate_duration(call.arg))
ValidateCoughType == CallValidator("validate_cough_type", "", validate_cough_type(call.arg))
ValidateBoolean == CallValidator("validate_boolean", "", validate_boolean(call.arg))
ValidateTestResult ==
    \E test_name \in {"WBC", "Platelets", "Malaria", "Dengue"} :
        CallValidator("validate_test_result", test_name, validate_test_result(call.arg, test_name))

NextFields ==
    \/ ValidateAge
    \/ ValidateWeight
    \/ ValidateTemperature
    \/ ValidateGender
    \/ ValidateDuration
    \/ ValidateCoughType
    \/ ValidateBoolean
    \/ ValidateTestResult

SpecFields == InitFields /\ [][NextFields]_vars

----------------------------------------------------------------------------
(* validate_user_data on a raw record, and check_emergency on its result *)

InitRecord ==
    /\ raw \in ValidationRecords
    /\ validated = NotValidated /\ alert = NoAlert
    /\ call = NoCall /\ ret = NoRet
    /\ PipelineIdle

ValidateUserData ==
    /\ validated.state = "none"
    /\ validated' = validate_user_data(raw)
    /\ UNCHANGED <<call, ret, raw, alert, pc, entry, gen, llm, llmCalls, yielded, response, requests, now, threads, admitted, ui>>

CheckValidated ==
    /\ validated.state = "ok" /\ alert.state = "none"
    /\ alert' = check_emergency(validated.rec)
    /\ UNCHANGED <<call, ret, raw, validated, pc, entry, gen, llm, llmCalls, yielded, response, requests, now, threads, admitted, ui>>

\* MockAnalyzer.get_mock_analysis(validated_data), as SymptomCLI.run calls it
MockAnalysisOfValidated ==
    /\ validated.state = "ok" /\ pc = "idle"
    /\ ret' = get_mock_analysis(validated.rec)
    /\ pc' = "analysed"
    /\ UNCHANGED <<call, raw, validated, alert, entry, gen, llm, llmCalls, yielded, response, requests, now, threads, admitted, ui>>

\* SymptomAnalyzer.analyze_symptoms validates the record it is given, which
\* POST /analyze has validated already
ValidateAgain ==
    /\ validated.state = "ok" /\ pc = "idle"
    /\ \E second \in {validate_user_data(validated.rec)} :
          ret' = IF second.state = "ok" THEN Ok(second.rec) ELSE Raise(second.err, second.label)
    /\ call' = [fn |-> "validate_user_data", name |-> "", arg |-> None]
    /\ pc' = "revalidated"
    /\ UNCHANGED <<raw, validated, alert, entry, gen, llm, llmCalls, yielded, response,
                   requests, now, threads, admitted, ui>>

NextRecord ==
    \/ ValidateUserData
    \/ CheckValidated
    \/ MockAnalysisOfValidated
    \/ ValidateAgain

SpecRecord == InitRecord /\ [][NextRecord]_vars

----------------------------------------------------------------------------
(* check_emergency called on a record, and again after the record gained a *)
(* further triggering condition                                            *)

InitEmergency ==
    /\ raw \in EmergencyRecords
    /\ validated = NotValidated /\ alert = NoAlert
    /\ call = NoCall /\ ret = NoRet
    /\ PipelineIdle

CheckEmergency ==
    /\ pc = "idle"
    /\ alert' = check_emergency(raw)
    /\ pc' = "checked"
    /\ UNCHANGED <<call, ret, raw, validated, entry, gen, llm, llmCalls, yielded, response, requests, now, threads, admitted, ui>>

\* whether a flag counts as not set: false, null or missing
FlagUnset(symptoms, f) ==
    f \notin DOMAIN symptoms \/ IsNone(symptoms[f]) \/ (IsBool(symptoms[f]) /\ ~symptoms[f].b)
\* whether the temperature is unknown or a number not above 40
NotHighTemperature(basic_info) ==
    \/ "temperature" \notin DOMAIN basic_info
    \/ IsNone(basic_info["temperature"])
    \/ (IsNumeric(basic_info["temperature"]) /\ NumOf(basic_info["temperature"]) <= 400)

\* the records that differ from r by one more condition made true
WithOneMoreTrigger(r) ==
    {[r EXCEPT !.symptoms = [g \in DOMAIN r.symptoms \cup {f} |->
                                 IF g = f THEN BoolV(TRUE) ELSE r.symptoms[g]]] :
        f \in {g \in RuleFlags : FlagUnset(r.symptoms, g)}}
    \cup {[r EXCEPT !.basic_info = [g \in {"temperature"} |-> v]] :
            v \in IF NotHighTemperature(r.basic_info) THEN {IntV(41), FloatV(405)} ELSE {}}

AddTrigger ==
    /\ pc \in {"checked", "rechecked"}
    /\ \E r \in WithOneMoreTrigger(raw) :
        /\ raw' = r
        /\ alert' = check_emergency(r)
    /\ pc' = "rechecked"
    /\ UNCHANGED <<call, ret, validated, entry, gen, llm, llmCalls, yielded, response, requests, now, threads, admitted, ui>>

NextEmergency ==
    \/ CheckEmergency
    \/ AddTrigger

SpecEmergency == InitEmergency /\ [][NextEmergency]_vars

----------------------------------------------------------------------------
(* api.py: RateLimiter *)

RATE_LIMIT_REQUESTS == 10
RATE_LIMIT_WINDOW == 60

\* an is_allowed that does not clean the old requests before it counts
IsAllowedWithoutCleaning(reqs, client_id, current_time) ==
    IF client_id \in DOMAIN reqs /\ Len(reqs[client_id]) >= RATE_LIMIT_REQUESTS
    THEN [allowed |-> FALSE, requests |-> reqs]
    ELSE [allowed |-> TRUE,
          requests |-> [c \in DOMAIN reqs \cup {client_id} |->
                           IF c = client_id
                           THEN Append(IF c \in DOMAIN reqs THEN reqs[c] ELSE <<>>, current_time)
                           ELSE reqs[c]]]

\* RateLimiter.is_allowed: its answer and the requests mapping it leaves
is_allowed(reqs, client_id, current_time) ==
    LET window_start == current_time - RATE_LIMIT_WINDOW
        Newer(req_time) == req_time > window_start
        kept == IF client_id \in DOMAIN reqs THEN SelectSeq(reqs[client_id], Newer) ELSE <<>>
        cleaned == IF client_id \in DOMAIN reqs THEN [reqs EXCEPT ![client_id] = kept] ELSE reqs
    IN IF Len(kept) >= RATE_LIMIT_REQUESTS
       THEN [allowed |-> FALSE, requests |-> cleaned]
       ELSE [allowed |-> TRUE,
             requests |-> [c \in DOMAIN reqs \cup {client_id} |->
                              IF c = client_id THEN Append(kept, current_time) ELSE reqs[c]]]

----------------------------------------------------------------------------
(* logic.py: SymptomAnalyzer.analyze_symptoms, a generator, and            *)
(* llm_interface.py: LLMService.generate_analysis, which it delegates to   *)

\* how many fragments a backend's stream yields at most; the mock backend's
\* fixed text is cut to this many fragments
MaxFragments == 2

\* the except clauses of analyze_symptoms: what it raises for an error of class err
AnalyzeRaises(err) ==
    IF Catches("EmergencyDetectedError", err) THEN err
    ELSE IF Catches("ValidationError", err) THEN err
    ELSE "DataProcessingError"

\* analyze_symptoms after validate_user_data returned or raised
AfterValidation(g, v) ==
    IF v.state = "ok" THEN [g EXCEPT !.pc = "validated", !.data = v.rec]
    ELSE [g EXCEPT !.pc = "raised", !.err = AnalyzeRaises(v.err)]

\* an analyze_symptoms that goes on to the analysis whatever the emergency check says
AfterEmergencyCheckNoRaise(g, emergency) ==
    IF emergency.state = "raised"
    THEN [g EXCEPT !.pc = "raised", !.err = AnalyzeRaises(emergency.err)]
    ELSE [g EXCEPT !.pc = "checked"]

\* analyze_symptoms after check_emergency returned or raised
AfterEmergencyCheck(g, emergency) ==
    IF emergency.state = "raised"
    THEN [g EXCEPT !.pc = "raised", !.err = AnalyzeRaises(emergency.err)]
    ELSE IF emergency.is_emergency
    THEN [g EXCEPT !.pc = "raised", !.err = AnalyzeRaises("EmergencyDetectedError")]
    ELSE [g EXCEPT !.pc = "checked"]

\* backend.is_available() of the backend registered under name
Available(l, name) == IF name = "openrouter" THEN l.primary_ok ELSE l.fallback_ok

\* generate_response of the backend registered under name is called
Calling(l, name) ==
    [l EXCEPT !.backend = name, !.sent = 0,
              !.primary_calls = IF name = "openrouter" THEN @ + 1 ELSE @]

\* a generate_analysis that asks for the primary backend whatever use_mock says
SelectBackendIgnoringUseMock(l) ==
    IF Available(l, "openrouter") THEN Calling([l EXCEPT !.backend_name = "openrouter"], "openrouter")
    ELSE IF Available(l, "mock") THEN Calling([l EXCEPT !.backend_name = "openrouter"], "mock")
    ELSE [l EXCEPT !.backend_name = "openrouter", !.err = "APIError"]

\* generate_analysis choosing its backend: the one use_mock names, the fallback
\* when that one is not available, APIError when the fallback is not either
SelectBackend(l) ==
    IF Available(l, IF l.use_mock THEN "mock" ELSE "openrouter")
    THEN Calling([l EXCEPT !.backend_name = IF l.use_mock THEN "mock" ELSE "openrouter"],
                 IF l.use_mock THEN "mock" ELSE "openrouter")
    ELSE IF Available(l, "mock")
    THEN Calling([l EXCEPT !.backend_name = IF l.use_mock THEN "mock" ELSE "openrouter"], "mock")
    ELSE [l EXCEPT !.backend_name = IF l.use_mock THEN "mock" ELSE "openrouter", !.err = "APIError"]

\* The backend in use raised err, an APIError.  Inside the try block the except
\* clause goes on with the fallback backend when backend_name is not the fallback
\* and the fallback is available, and raises err again otherwise; an error of the
\* fallback called from the except clause propagates.
HandleBackendError(l, err) ==
    IF ~l.in_handler /\ l.backend_name # "mock" /\ Available(l, "mock")
    THEN [Calling(l, "mock") EXCEPT !.in_handler = TRUE, !.fallback_calls = @ + 1,
                                    !.failed = @ \cup {l.backend}]
    ELSE [l EXCEPT !.failed = @ \cup {l.backend}, !.err = err]

\* analyze_symptoms after generate_analysis started, went on or raised
AfterGeneration(g, l) ==
    IF l.err # "" THEN [g EXCEPT !.pc = "raised", !.err = AnalyzeRaises(l.err)]
    ELSE [g EXCEPT !.pc = "streaming"]

GenValidate ==
    /\ gen.pc = "created"
    /\ gen' = AfterValidation(gen, validate_user_data(gen.input))
    /\ UNCHANGED <<call, ret, raw, validated, alert, pc, entry, llm, llmCalls, yielded,
                   response, requests, now, threads, admitted, ui>>

GenCheckEmergency ==
    /\ gen.pc = "validated"
    /\ gen' = AfterEmergencyCheck(gen, check_emergency(gen.data))
    /\ UNCHANGED <<call, ret, raw, validated, alert, pc, entry, llm, llmCalls, yielded,
                   response, requests, now, threads, admitted, ui>>

GenInvokeLLM ==
    /\ gen.pc = "checked"
    /\ llmCalls' = llmCalls + 1
    /\ llm' = SelectBackend(llm)
    /\ gen' = AfterGeneration(gen, llm')
    /\ UNCHANGED <<call, ret, raw, validated, alert, pc, entry, yielded, response, requests, now, threads, admitted, ui>>

\* the backend in use yields one more fragment, which analyze_symptoms passes on
GenFragment ==
    /\ gen.pc = "streaming"
    /\ llm.sent < MaxFragments
    /\ yielded' = Append(yielded, llm.backend)
    /\ llm' = [llm EXCEPT !.sent = @ + 1]
    /\ UNCHANGED <<call, ret, raw, validated, alert, pc, entry, gen, llmCalls, response, requests, now, threads, admitted, ui>>

\* the stream ends: the mock backend's after its last fragment, the primary's anywhere
GenStreamEnds ==
    /\ gen.pc = "streaming"
    /\ llm.backend = "mock" => llm.sent = MaxFragments
    /\ gen' = [gen EXCEPT !.pc = "finished"]
    /\ UNCHANGED <<call, ret, raw, validated, alert, pc, entry, llm, llmCalls, yielded,
                   response, requests, now, threads, admitted, ui>>

\* the primary backend raises an APIError or one of its subclasses
GenPrimaryFails ==
    /\ gen.pc = "streaming"
    /\ llm.backend = "openrouter"
    /\ \E err \in {"APIError", "NetworkError"} : llm' = HandleBackendError(llm, err)
    /\ gen' = AfterGeneration(gen, llm')
    /\ UNCHANGED <<call, ret, raw, validated, alert, pc, entry, llmCalls, yielded,
                   response, requests, now, threads, admitted, ui>>

\* the backend registered as the fallback raises an APIError before its first fragment
GenFallbackFails ==
    /\ gen.pc = "streaming"
    /\ llm.backend = "mock" /\ llm.sent = 0
    /\ llm' = HandleBackendError(llm, "APIError")
    /\ gen' = AfterGeneration(gen, llm')
    /\ UNCHANGED <<call, ret, raw, validated, alert, pc, entry, llmCalls, yielded,
                   response, requests, now, threads, admitted, ui>>

----------------------------------------------------------------------------
(* A consumer that iterates analyze_symptoms on a raw record, as list() does *)

Outcome(kind, error) ==
    [kind |-> kind, status |-> 0, error |-> error, emergency |-> FALSE, reasons |-> <<>>]

DirectCall ==
    /\ entry = "direct" /\ pc = "start"
    /\ gen' = [gen EXCEPT !.pc = "created", !.input = raw]
    /\ pc' = "consume"
    /\ UNCHANGED <<call, ret, raw, validated, alert, entry, llm, llmCalls, yielded,
                   response, requests, now, threads, admitted, ui>>

DirectReceive ==
    /\ entry = "direct" /\ pc = "consume"
    /\ gen.pc \in {"finished", "raised"}
    /\ response' = IF gen.pc = "finished" THEN Outcome("returned", "") ELSE Outcome("raised", gen.err)
    /\ pc' = "done"
    /\ UNCHANGED <<call, ret, raw, validated, alert, entry, gen, llm, llmCalls, yielded, requests, now, threads, admitted, ui>>

----------------------------------------------------------------------------
(* api.py: POST /analyze *)

Http(status, error, emergency, reasons) ==
    [kind |-> "http", status |-> status, error |-> error, emergency |-> emergency, reasons |-> reasons]

\* the except clauses of the route
RouteErrorResponse(err) ==
    IF Catches("ValidationError", err) THEN Http(400, "Invalid input data", FALSE, <<>>)
    ELSE IF Catches("EmergencyDetectedError", err)
    THEN Http(200, "Emergency symptoms detected", TRUE, <<>>)
    ELSE IF Catches("APIError", err) THEN Http(503, "Service temporarily unavailable", FALSE, <<>>)
    ELSE Http(500, "Internal server error", FALSE, <<>>)

ApiRateLimit ==
    /\ entry = "api" /\ pc = "start"
    /\ \E r \in {is_allowed(requests, "client", now)} :
        /\ requests' = r.requests
        /\ IF r.allowed
           THEN pc' = "body" /\ UNCHANGED response
           ELSE /\ pc' = "done"
                /\ response' = Http(429, "Rate limit exceeded. Please try again later.", FALSE, <<>>)
    /\ UNCHANGED <<call, ret, raw, validated, alert, entry, gen, llm, llmCalls, yielded, now, threads, admitted, ui>>

\* the body is missing or the empty object
ApiNoData ==
    /\ entry = "api" /\ pc = "body"
    /\ raw = EmptyRecord
    /\ response' = Http(400, "No data provided", FALSE, <<>>)
    /\ pc' = "done"
    /\ UNCHANGED <<call, ret, raw, validated, alert, entry, gen, llm, llmCalls, yielded, requests, now, threads, admitted, ui>>

ApiValidate ==
    /\ entry = "api" /\ pc = "body"
    /\ validated' = validate_user_data(raw)
    /\ IF validated'.state = "ok"
       THEN pc' = "emergency" /\ UNCHANGED response
       ELSE pc' = "done" /\ response' = RouteErrorResponse(validated'.err)
    /\ UNCHANGED <<call, ret, raw, alert, entry, gen, llm, llmCalls, yielded, requests, now, threads, admitted, ui>>

ApiCheckEmergency ==
    /\ entry = "api" /\ pc = "emergency"
    /\ alert' = check_emergency(validated.rec)
    /\ IF alert'.state = "raised"
       THEN pc' = "done" /\ response' = RouteErrorResponse(alert'.err)
       ELSE IF alert'.is_emergency
       THEN pc' = "done" /\ response' = Http(200, "Emergency symptoms detected", TRUE, alert'.reasons)
       ELSE pc' = "analyze" /\ UNCHANGED response
    /\ UNCHANGED <<call, ret, raw, validated, entry, gen, llm, llmCalls, yielded, requests, now, threads, admitted, ui>>

ApiAnalyze ==
    /\ entry = "api" /\ pc = "analyze"
    /\ gen' = [gen EXCEPT !.pc = "created", !.input = validated.rec]
    /\ pc' = "consume"
    /\ UNCHANGED <<call, ret, raw, validated, alert, entry, llm, llmCalls, yielded,
                   response, requests, now, threads, admitted, ui>>

ApiRespond ==
    /\ entry = "api" /\ pc = "consume"
    /\ gen.pc \in {"finished", "raised"}
    /\ response' = IF gen.pc = "finished" THEN Http(200, "", FALSE, <<>>) ELSE RouteErrorResponse(gen.err)
    /\ pc' = "done"
    /\ UNCHANGED <<call, ret, raw, validated, alert, entry, gen, llm, llmCalls, yielded, requests, now, threads, admitted, ui>>

----------------------------------------------------------------------------
(* cli.py: SymptomCLI.run *)

\* what input(prompt).strip() returns for the answer v
Typed(v) == Strip(PyStr(v))

\* _get_input with a validator, the validator being the one fld has in
\* _collect_user_data; a blank answer gives None
GetInput(value, fld) ==
    IF value = <<>> THEN Ok(None)
    ELSE ValidateField([s \in Sections |-> [f \in {fld.name} |-> StrV(value)]], fld)

\* _get_yes_no
GetYesNo(answer) == validate_boolean(StrV(Lower(answer)))

\* the questions _get_yes_no asks
YesNoFields == {"chronic_diseases"} \cup Range(SymptomFlags)

\* What each prompt of _collect_user_data makes of the answer typed to it.  The
\* answers typed are the values of the record; a yes/no question the record has
\* no value for is answered n, any other one with an empty line.
PromptOutcomes(answers) ==
    [i \in 1..(Len(BasicFields) + Len(SymptomFields)) |->
        IF FieldOrder[i].name \in YesNoFields
        THEN GetYesNo(Typed(GetDefault(answers[FieldOrder[i].section], FieldOrder[i].name,
                                       StrV(<<"n">>))))
        ELSE GetInput(Typed(GetDefault(answers[FieldOrder[i].section], FieldOrder[i].name,
                                       StrV(<<>>))), FieldOrder[i])]

\* whether a prompt returns: _get_input and _get_yes_no ask again on any exception
Returns(outcome) == outcome.ok

\* The dictionary _collect_user_data returns, out[i] being the outcome of the
\* prompt for FieldOrder[i]; the user has no blood test results to enter.
CollectUserData(out) ==
    [basic_info |-> [f \in Range(BasicFields) |-> out[IndexOf(BasicFields, f)].val],
     symptoms |->
        [f \in Range(SymptomFlags)
                \cup {f \in {"fever_duration"} :
                         out[Len(BasicFields) + IndexOf(SymptomFields, "fever")].val.b}
                \cup {f \in {"cough_type"} :
                         out[Len(BasicFields) + IndexOf(SymptomFields, "cough")].val.b} |->
            out[Len(BasicFields) + IndexOf(SymptomFields, f)].val],
     test_results |-> EmptySection]

CliCollect ==
    /\ entry = "cli" /\ pc = "start"
    /\ \E out \in {PromptOutcomes(raw)} :
        /\ \A i \in DOMAIN out : Returns(out[i])
        /\ raw' = CollectUserData(out)
    /\ pc' = "body"
    /\ UNCHANGED <<call, ret, validated, alert, entry, gen, llm, llmCalls, yielded,
                   response, requests, now, threads, admitted, ui>>

\* the outer except clauses of run
RunErrorOutcome(err) ==
    IF Catches("ValidationError", err) THEN Outcome("invalid", err) ELSE Outcome("unexpected", err)

CliValidate ==
    /\ entry = "cli" /\ pc = "body"
    /\ validated' = validate_user_data(raw)
    /\ IF validated'.state = "ok"
       THEN pc' = "emergency" /\ UNCHANGED response
       ELSE pc' = "done" /\ response' = RunErrorOutcome(validated'.err)
    /\ UNCHANGED <<call, ret, raw, alert, entry, gen, llm, llmCalls, yielded, requests, now, threads, admitted, ui>>

CliCheckEmergency ==
    /\ entry = "cli" /\ pc = "emergency"
    /\ alert' = check_emergency(validated.rec)
    /\ IF alert'.state = "raised"
       THEN pc' = "done" /\ response' = RunErrorOutcome(alert'.err)
       ELSE IF alert'.is_emergency
       THEN pc' = "done" /\ response' = [Outcome("emergency", "") EXCEPT !.emergency = TRUE,
                                                                       !.reasons = alert'.reasons]
       ELSE pc' = "analyze" /\ UNCHANGED response
    /\ UNCHANGED <<call, ret, raw, validated, entry, gen, llm, llmCalls, yielded, requests, now, threads, admitted, ui>>

CliAnalyze ==
    /\ entry = "cli" /\ pc = "analyze"
    /\ gen' = [gen EXCEPT !.pc = "created", !.input = validated.rec]
    /\ pc' = "consume"
    /\ UNCHANGED <<call, ret, raw, validated, alert, entry, llm, llmCalls, yielded,
                   response, requests, now, threads, admitted, ui>>

\* the except clause around the analysis: the mock analysis is printed, or the
\* error get_mock_analysis raised reaches the outer except clauses
FallbackOutcome(analysis) ==
    IF analysis.ok THEN Outcome("fallback", "") ELSE RunErrorOutcome(analysis.err)

\* the analysis is printed, or, when analyze_symptoms raised, the mock analysis
CliFinish ==
    /\ entry = "cli" /\ pc = "consume"
    /\ gen.pc \in {"finished", "raised"}
    /\ response' = IF gen.pc = "finished" THEN Outcome("analysis", "")
                   ELSE FallbackOutcome(get_mock_analysis(validated.rec))
    /\ pc' = "done"
    /\ UNCHANGED <<call, ret, raw, validated, alert, entry, gen, llm, llmCalls, yielded, requests, now, threads, admitted, ui>>

----------------------------------------------------------------------------
(* One request through one of the entry points *)

PipelineRecords ==
    {[basic_info |-> b, symptoms |-> s, test_results |-> EmptySection] :
        b \in UNION {{[f \in D |-> c[f]] : c \in
                        [age : {StrV(<<"x">>)},
                         temperature : {FloatV(385), IntV(41)},
                         duration : {StrV(ThreeDays), StrV(<<"<", "b", ">">>)}]} :
                     D \in SUBSET {"age", "temperature", "duration"}},
        s \in UNION {[D -> {BoolV(TRUE)}] : D \in SUBSET RuleFlags}}

\* the limiter of a server that has just admitted RATE_LIMIT_REQUESTS requests
\* of the client at time 0
FullRequests == [c \in {"client"} |-> Rep(0, RATE_LIMIT_REQUESTS)]

Init ==
    /\ entry \in {"api", "cli", "direct"}
    /\ raw \in PipelineRecords
    /\ llm \in {[NoLlm EXCEPT !.use_mock = m, !.primary_ok = a, !.fallback_ok = f] :
                   m \in (IF entry = "direct" THEN BOOLEAN ELSE {FALSE}), a \in BOOLEAN,
                   f \in BOOLEAN}
    /\ requests \in (IF entry = "api" THEN {NoRequests, FullRequests} ELSE {NoRequests})
    /\ now \in (IF entry = "api" THEN {0, RATE_LIMIT_WINDOW} ELSE {0})
    /\ pc = "start"
    /\ gen = NoGen /\ llmCalls = 0 /\ yielded = <<>> /\ response = NoResponse
    /\ validated = NotValidated /\ alert = NoAlert
    /\ call = NoCall /\ ret = NoRet
    /\ NoLimiterNoWindow

Next ==
    \/ DirectCall
    \/ DirectReceive
    \/ ApiRateLimit
    \/ ApiNoData
    \/ ApiValidate
    \/ ApiCheckEmergency
    \/ ApiAnalyze
    \/ ApiRespond
    \/ CliCollect
    \/ CliValidate
    \/ CliCheckEmergency
    \/ CliAnalyze
    \/ CliFinish
    \/ GenValidate
    \/ GenCheckEmergency
    \/ GenInvokeLLM
    \/ GenFragment
    \/ GenStreamEnds
    \/ GenPrimaryFails
    \/ GenFallbackFails

Spec == Init /\ [][Next]_vars

----------------------------------------------------------------------------
(* disease_comparator.py: the catalog and compare_with_diseases.           *)
(* A ratio is kept as the integer ratio * 2520 (2520 is divisible by every  *)
(* number of checks a profile can give rise to, 1..10), overall_match as    *)
(* overall * 25200; both are exact.                                         *)

\* a tuple (lo, hi) of a profile, the numbers in tenths
RangeV(lo, hi) == [t |-> "range", lo |-> lo, hi |-> hi]
IsRange(expected) == expected.t = "range"

\* the test_results ranges the profiles share
CommonTests(wbc, platelets, hemoglobin, alt) ==
    [WBC |-> wbc, Platelets |-> platelets, Hemoglobin |-> hemoglobin,
     Blood_Sugar |-> RangeV(70 * 10, 140 * 10), ALT |-> alt, Creatinine |-> RangeV(6, 12)]

\* dict | dict
Merge(d, e) == [k \in DOMAIN d \cup DOMAIN e |-> IF k \in DOMAIN e THEN e[k] ELSE d[k]]

PREDEFINED_DISEASES ==
    << [name |-> "Viral Fever",
        symptoms |-> [fever |-> BoolV(TRUE), fatigue |-> BoolV(TRUE), headache |-> BoolV(TRUE),
                      body_pain |-> BoolV(TRUE), sore_throat |-> BoolV(TRUE),
                      appetite_change |-> BoolV(TRUE), fever_duration |-> IntV(3)],
        test_results |-> CommonTests(RangeV(4000 * 10, 11000 * 10), RangeV(150000 * 10, 450000 * 10),
                                     RangeV(12 * 10, 16 * 10), RangeV(7 * 10, 56 * 10)),
        basic_info |-> [temperature |-> RangeV(375, 395), duration |-> RangeV(1 * 10, 7 * 10)]],
       [name |-> "Dengue",
        symptoms |-> [fever |-> BoolV(TRUE), fatigue |-> BoolV(TRUE), headache |-> BoolV(TRUE),
                      body_pain |-> BoolV(TRUE), nausea |-> BoolV(TRUE), rash |-> BoolV(TRUE),
                      recent_travel |-> BoolV(TRUE), fever_duration |-> IntV(5)],
        test_results |-> Merge(CommonTests(RangeV(2000 * 10, 5000 * 10), RangeV(20000 * 10, 100000 * 10),
                                           RangeV(10 * 10, 14 * 10), RangeV(30 * 10, 100 * 10)),
                               [Dengue |-> BoolV(TRUE)]),
        basic_info |-> [temperature |-> RangeV(38 * 10, 40 * 10), duration |-> RangeV(3 * 10, 10 * 10)]],
       [name |-> "Typhoid",
        symptoms |-> [fever |-> BoolV(TRUE), fatigue |-> BoolV(TRUE), headache |-> BoolV(TRUE),
                      nausea |-> BoolV(TRUE), vomiting |-> BoolV(TRUE), diarrhea |-> BoolV(TRUE),
                      appetite_change |-> BoolV(TRUE), fever_duration |-> IntV(7)],
        test_results |-> Merge(CommonTests(RangeV(3000 * 10, 8000 * 10), RangeV(100000 * 10, 300000 * 10),
                                           RangeV(10 * 10, 14 * 10), RangeV(20 * 10, 80 * 10)),
                               [Typhoid |-> BoolV(TRUE)]),
        basic_info |-> [temperature |-> RangeV(38 * 10, 405), duration |-> RangeV(5 * 10, 14 * 10)]],
       [name |-> "Malaria",
        symptoms |-> [fever |-> BoolV(TRUE), fatigue |-> BoolV(TRUE), headache |-> BoolV(TRUE),
                      body_pain |-> BoolV(TRUE), nausea |-> BoolV(TRUE), vomiting |-> BoolV(TRUE),
                      recent_travel |-> BoolV(TRUE), fever_duration |-> IntV(4)],
        test_results |-> Merge(CommonTests(RangeV(4000 * 10, 12000 * 10), RangeV(50000 * 10, 150000 * 10),
                                           RangeV(8 * 10, 12 * 10), RangeV(20 * 10, 60 * 10)),
                               [Malaria |-> BoolV(TRUE)]),
        basic_info |-> [temperature |-> RangeV(38 * 10, 40 * 10), duration |-> RangeV(2 * 10, 10 * 10)]],
       [name |-> "COVID-19",
        symptoms |-> [fever |-> BoolV(TRUE), cough |-> BoolV(TRUE), fatigue |-> BoolV(TRUE),
                      shortness_of_breath |-> BoolV(TRUE), sore_throat |-> BoolV(TRUE),
                      headache |-> BoolV(TRUE), body_pain |-> BoolV(TRUE),
                      loss_of_taste_smell |-> BoolV(TRUE), fever_duration |-> IntV(5),
                      cough_type |-> StrV(<<"d", "r", "y">>)],
        test_results |-> CommonTests(RangeV(3000 * 10, 10000 * 10), RangeV(100000 * 10, 400000 * 10),
                                     RangeV(11 * 10, 15 * 10), RangeV(10 * 10, 50 * 10)),
        basic_info |-> [temperature |-> RangeV(375, 39 * 10), duration |-> RangeV(3 * 10, 14 * 10)]] >>

\* matches / total_checks if total_checks > 0 else 0
Ratio(matches, total_checks) ==
    IF total_checks > 0 THEN (matches * 2520) \div total_checks ELSE 0

\* expected_range[0] <= value <= expected_range[1]; a str or None operand is a TypeError
InRange(value, expected_range) ==
    IF ~IsNumeric(value) THEN Raise("TypeError", "")
    ELSE Ok(BoolV(expected_range.lo <= NumOf(value) /\ NumOf(value) <= expected_range.hi))

calculate_symptom_match(user_symptoms, disease_symptoms) ==
    LET checked == DOMAIN disease_symptoms \cap DOMAIN user_symptoms
        matched == {s \in checked : PyEq(user_symptoms[s], disease_symptoms[s])}
    IN Ok(Ratio(Cardinality(matched), Cardinality(checked)))

\* the outcome of the comparison calculate_test_match makes for one checked test
TestCheck(value, expected_range) ==
    IF IsRange(expected_range) THEN InRange(value, expected_range)
    ELSE Ok(BoolV(PyEq(value, expected_range)))

\* the ratio of the checks that matched, or the error of one that raised
RatioOfChecks(check, skipped) ==
    IF \E k \in DOMAIN check : ~check[k].ok THEN Raise("TypeError", "")
    ELSE Ok(Ratio(Cardinality({k \in DOMAIN check : check[k].val.b}),
                  Cardinality(DOMAIN check \ skipped)))

calculate_test_match(user_tests, disease_tests) ==
    RatioOfChecks([k \in {x \in DOMAIN disease_tests \cap DOMAIN user_tests : ~IsNone(user_tests[x])} |->
                      TestCheck(user_tests[k], disease_tests[k])], {})

\* float(user_basic[info]) if isinstance(user_basic[info], str) else user_basic[info]
UserValue(value) == IF IsStr(value) THEN ParseFloat(value.s) ELSE Ok(value)

\* the comparison calculate_basic_info_match makes for one checked field, the
\* conversion having given converted; a failed conversion matches nothing
BasicCheck(value, converted, expected_range) ==
    IF ~IsRange(expected_range) THEN Ok(BoolV(PyEq(value, expected_range)))
    ELSE IF ~converted.ok THEN Ok(BoolV(FALSE))
    ELSE InRange(converted.val, expected_range)

calculate_basic_info_match(user_basic, disease_basic) ==
    RatioOfChecks([k \in {x \in DOMAIN disease_basic \cap DOMAIN user_basic : ~IsNone(user_basic[x])} |->
                      BasicCheck(user_basic[k], UserValue(user_basic[k]), disease_basic[k])],
                  {x \in DOMAIN disease_basic \cap DOMAIN user_basic :
                      IsRange(disease_basic[x]) /\ IsStr(user_basic[x]) /\ ~UserValue(user_basic[x]).ok})

\* a loop body that leaves a field whose conversion failed among the checked ones
CountFieldKeepingFailed(counts, user_basic, info, expected_range) ==
    IF info \notin DOMAIN user_basic \/ IsNone(Get(user_basic, info)) THEN counts
    ELSE IF IsRange(expected_range) /\ ~UserValue(user_basic[info]).ok
    THEN [counts EXCEPT !.total_checks = @ + 1]
    ELSE IF BasicCheck(user_basic[info], UserValue(user_basic[info]), expected_range).val.b
    THEN [matches |-> counts.matches + 1, total_checks |-> counts.total_checks + 1]
    ELSE [counts EXCEPT !.total_checks = @ + 1]

\* The body of the loop of calculate_basic_info_match for the field info:
\* matches and total_checks after it, given them before it.  total_checks is
\* incremented first and decremented again when the conversion fails.
CountField(counts, user_basic, info, expected_range) ==
    IF info \notin DOMAIN user_basic \/ IsNone(Get(user_basic, info)) THEN counts
    ELSE IF IsRange(expected_range) /\ ~UserValue(user_basic[info]).ok
    THEN [counts EXCEPT !.total_checks = (@ + 1) - 1]
    ELSE IF BasicCheck(user_basic[info], UserValue(user_basic[info]), expected_range).val.b
    THEN [matches |-> counts.matches + 1, total_checks |-> counts.total_checks + 1]
    ELSE [counts EXCEPT !.total_checks = @ + 1]

\* the fields of a profile's basic_info in the order the loop visits them
BasicInfoOrder == <<"temperature", "duration">>

\* matches and total_checks before the loop and after each of its iterations
RECURSIVE BasicInfoCounts(_, _, _)
BasicInfoCounts(user_basic, disease_basic, n) ==
    IF n = 0 THEN <<[matches |-> 0, total_checks |-> 0]>>
    ELSE Append(BasicInfoCounts(user_basic, disease_basic, n - 1),
                CountField(BasicInfoCounts(user_basic, disease_basic, n - 1)[n], user_basic,
                           BasicInfoOrder[n], disease_basic[BasicInfoOrder[n]]))

\* an overall score that adds the three ratios without their weights
OverallUnweighted(symptom_match, test_match, basic_match) ==
    (symptom_match + test_match + basic_match) * 10

\* (symptom_match * 0.5) + (test_match * 0.3) + (basic_match * 0.2), times 25200
OverallMatch(symptom_match, test_match, basic_match) ==
    symptom_match * 5 + test_match * 3 + basic_match * 2

\* the dictionary compare_with_diseases appends for one profile
MatchResult(disease_name, symptom_match, test_match, basic_match) ==
    [disease |-> disease_name,
     overall_match |-> OverallMatch(symptom_match, test_match, basic_match),
     symptom_match |-> symptom_match, test_match |-> test_match, basic_match |-> basic_match]

\* an insertion that orders by increasing overall_match
RECURSIVE InsertByOverallAscending(_, _)
InsertByOverallAscending(sorted, x) ==
    IF sorted = <<>> THEN <<x>>
    ELSE IF Head(sorted).overall_match <= x.overall_match
    THEN <<Head(sorted)>> \o InsertByOverallAscending(Tail(sorted), x)
    ELSE <<x>> \o sorted

\* the results left in the order the profiles were compared
Unsorted(results) == results

\* list.sort(key=lambda x: x["overall_match"], reverse=True): stable, so equal
\* keys keep the order they had
RECURSIVE InsertByOverall(_, _)
InsertByOverall(sorted, x) ==
    IF sorted = <<>> THEN <<x>>
    ELSE IF Head(sorted).overall_match >= x.overall_match
    THEN <<Head(sorted)>> \o InsertByOverall(Tail(sorted), x)
    ELSE <<x>> \o sorted

RECURSIVE SortByOverall(_)
SortByOverall(results) ==
    IF results = <<>> THEN <<>>
    ELSE InsertByOverall(SortByOverall(SubSeq(results, 1, Len(results) - 1)), results[Len(results)])

\* compare_with_diseases once the three ratios of every profile are computed
RankProfiles(m) ==
    IF \E i \in DOMAIN m : ~(m[i].s.ok /\ m[i].t.ok /\ m[i].b.ok) THEN Raise("TypeError", "")
    ELSE Ok(SortByOverall([i \in DOMAIN m |->
                MatchResult(PREDEFINED_DISEASES[i].name, m[i].s.val, m[i].t.val, m[i].b.val)]))

compare_with_diseases(user_data) ==
    RankProfiles([i \in DOMAIN PREDEFINED_DISEASES |->
        [s |-> calculate_symptom_match(user_data.symptoms, PREDEFINED_DISEASES[i].symptoms),
         t |-> calculate_test_match(user_data.test_results, PREDEFINED_DISEASES[i].test_results),
         b |-> calculate_basic_info_match(user_data.basic_info, PREDEFINED_DISEASES[i].basic_info)]])

----------------------------------------------------------------------------
(* compare_with_diseases called, and called again, on one record *)

AllFalse(flags) == [f \in flags |-> BoolV(FALSE)]
AllTrue(flags) == [f \in flags |-> BoolV(TRUE)]

ViralFeverFlags == {"fever", "fatigue", "headache", "body_pain", "sore_throat", "appetite_change"}

CompareSymptoms ==
    {EmptySection,
     AllTrue({"chest_pain"}),
     AllFalse({"fever"}),
     AllTrue(ViralFeverFlags),
     Merge(Merge(AllFalse(Range(SymptomFlags)), AllTrue(ViralFeverFlags)), [cough_type |-> None]),
     AllTrue({"fever", "fatigue", "headache", "body_pain", "nausea", "rash", "recent_travel"}),
     Merge(AllTrue({"fever", "cough", "loss_of_taste_smell"}), [cough_type |-> StrV(<<"d", "r", "y">>)])}

\* the mappings that give some of the keys of choices a value of its choices
Partial(choices) ==
    UNION {{[k \in D |-> c[k]] : c \in [D -> UNION {choices[k] : k \in D}]} :
              D \in SUBSET DOMAIN choices}

SomeOf(choices) == {m \in Partial(choices) : \A k \in DOMAIN m : m[k] \in choices[k]}

CompareRecords ==
    {[basic_info |-> b, symptoms |-> Merge(s, d), test_results |-> x] :
        s \in CompareSymptoms,
        d \in SomeOf([fever_duration |-> {None, IntV(3), IntV(5)}]),
        x \in SomeOf([WBC |-> {None, IntV(3500), IntV(6000), StrV(<<"x">>)},
                      Platelets |-> {IntV(90000)},
                      Dengue |-> {BoolV(TRUE), BoolV(FALSE)}]),
        b \in SomeOf([temperature |-> {None, FloatV(385), IntV(41)},
                      duration |-> {StrV(<<"4">>), StrV(ThreeDays)}])}

InitCompare ==
    /\ raw \in CompareRecords
    /\ validated = NotValidated /\ alert = NoAlert
    /\ call = NoCall /\ ret = NoRet
    /\ PipelineIdle

Compare ==
    /\ pc = "idle"
    /\ ret' = compare_with_diseases(raw)
    /\ pc' = "compared"
    /\ UNCHANGED <<call, raw, validated, alert, entry, gen, llm, llmCalls, yielded, response, requests, now, threads, admitted, ui>>

CompareAgain ==
    /\ pc = "compared"
    /\ ret' = compare_with_diseases(raw)
    /\ pc' = "recompared"
    /\ UNCHANGED <<call, raw, validated, alert, entry, gen, llm, llmCalls, yielded, response, requests, now, threads, admitted, ui>>

NextCompare ==
    \/ Compare
    \/ CompareAgain

SpecCompare == InitCompare /\ [][NextCompare]_vars

----------------------------------------------------------------------------
(* MockAnalyzer called on one record *)

FallbackRecords ==
    {[basic_info |-> b, symptoms |-> s, test_results |-> x] :
        s \in SomeOf([fever |-> {BoolV(TRUE), BoolV(FALSE)},
                      rash |-> {BoolV(TRUE)},
                      recent_travel |-> {BoolV(TRUE)},
                      fatigue |-> {BoolV(TRUE)},
                      headache |-> {BoolV(TRUE)},
                      nausea |-> {BoolV(TRUE)},
                      diarrhea |-> {BoolV(TRUE)}]) \cup {AllTrue({"cough"})},
        x \in SomeOf([Dengue |-> {None, BoolV(TRUE)},
                      Malaria |-> {BoolV(TRUE)},
                      Typhoid |-> {BoolV(TRUE)},
                      Platelets |-> {None, IntV(90000), IntV(100000)}]),
        b \in SomeOf([temperature |-> {None, FloatV(385), IntV(40)}])}

InitFallback ==
    /\ raw \in FallbackRecords
    /\ validated = NotValidated /\ alert = NoAlert
    /\ call = NoCall /\ ret = NoRet
    /\ PipelineIdle

GetRuleBasedPredictions ==
    /\ pc = "idle"
    /\ ret' = get_rule_based_predictions(raw.symptoms, raw.test_results, raw.basic_info)
    /\ pc' = "predicted"
    /\ UNCHANGED <<call, raw, validated, alert, entry, gen, llm, llmCalls, yielded, response, requests, now, threads, admitted, ui>>

GetMockAnalysis ==
    /\ pc = "idle"
    /\ ret' = get_mock_analysis(raw)
    /\ pc' = "analysed"
    /\ UNCHANGED <<call, raw, validated, alert, entry, gen, llm, llmCalls, yielded, response, requests, now, threads, admitted, ui>>

NextFallback ==
    \/ GetRuleBasedPredictions
    \/ GetMockAnalysis

SpecFallback == InitFallback /\ [][NextFallback]_vars

----------------------------------------------------------------------------
(* api.py: one RateLimiter called by one request after the other, the clock *)
(* never going back                                                         *)

Clients == {"10.0.0.1", "10.0.0.2"}

\* seconds between two readings of the clock that differ
TickSeconds == 30
\* how many times the clock advances
MaxTicks == 2
\* how many requests are admitted in all
MaxAdmitted == 11

\* the list d holds for key, the empty list when it holds none
ListOf(d, key) == IF key \in DOMAIN d THEN d[key] ELSE <<>>

\* the log of admitted requests after is_allowed answered
Logged(log, client_id, current_time, answer) ==
    IF answer.allowed
    THEN [c \in DOMAIN log \cup {client_id} |->
             IF c = client_id THEN Append(ListOf(log, c), current_time) ELSE log[c]]
    ELSE log

AdmittedInAll(log) == Len(FlattenLists(log))

InitLimiter ==
    /\ raw = EmptyRecord /\ validated = NotValidated /\ alert = NoAlert
    /\ call = NoCall /\ ret = NoRet
    /\ PipelineIdle

\* a request of client_id reaches the route, which asks the limiter
RequestArrives ==
    /\ AdmittedInAll(admitted) < MaxAdmitted
    /\ \E client_id \in Clients :
        \E answer \in {is_allowed(requests, client_id, now)} :
            /\ requests' = answer.requests
            /\ admitted' = Logged(admitted, client_id, now, answer)
            /\ ret' = Ok(BoolV(answer.allowed))
            /\ call' = [fn |-> "is_allowed", name |-> client_id, arg |-> None]
    /\ UNCHANGED <<raw, validated, alert, pc, entry, gen, llm, llmCalls, yielded, response, now,
                   threads, ui>>

TimePasses ==
    /\ now < MaxTicks * TickSeconds
    /\ now' = now + TickSeconds
    /\ UNCHANGED <<call, ret, raw, validated, alert, pc, entry, gen, llm, llmCalls, yielded,
                   response, requests, threads, admitted, ui>>

NextLimiter ==
    \/ RequestArrives
    \/ TimePasses

SpecLimiter == InitLimiter /\ [][NextLimiter]_vars

----------------------------------------------------------------------------
(* api.py: the same RateLimiter called by request threads that run          *)
(* is_allowed at once; no lock is taken, so the threads interleave between  *)
(* the statements of is_allowed                                             *)

ThreadIds == {1, 2}

\* how many windows go by while the threads run
MaxWindows == 1

\* the client all the threads serve
TheClient == "10.0.0.1"

Idle == [pc |-> "idle", current_time |-> 0, kept |-> <<>>]

InFlight(ths) == Cardinality({t \in DOMAIN ths : ths[t].pc # "idle"})

InitLimiterThreads ==
    /\ raw = EmptyRecord /\ validated = NotValidated /\ alert = NoAlert
    /\ call = NoCall /\ ret = NoRet
    /\ pc = "idle" /\ entry = "none" /\ gen = NoGen /\ llm = NoLlm /\ llmCalls = 0
    /\ yielded = <<>> /\ response = NoResponse /\ requests = NoRequests /\ now = 0
    /\ admitted = NoAdmitted /\ ui = NoUi
    /\ threads = [t \in ThreadIds |-> Idle]

\* a thread enters is_allowed: it reads the clock and, when the client has a
\* list, builds the list of its newer timestamps
Cleans(t) ==
    /\ threads[t].pc = "idle"
    /\ AdmittedInAll(admitted) + InFlight(threads) < MaxAdmitted
    /\ threads' = [threads EXCEPT ![t] =
          [pc |-> IF TheClient \in DOMAIN requests THEN "store" ELSE "count",
           current_time |-> now,
           kept |-> SelectSeq(ListOf(requests, TheClient),
                              LAMBDA req_time : req_time > now - RATE_LIMIT_WINDOW)]]
    /\ UNCHANGED <<call, ret, raw, validated, alert, pc, entry, gen, llm, llmCalls, yielded,
                   response, requests, now, admitted, ui>>

\* self.requests[client_id] = the list built before
Stores(t) ==
    /\ threads[t].pc = "store"
    /\ requests' = [c \in DOMAIN requests \cup {TheClient} |->
                       IF c = TheClient THEN threads[t].kept ELSE requests[c]]
    /\ threads' = [threads EXCEPT ![t].pc = "count"]
    /\ UNCHANGED <<call, ret, raw, validated, alert, pc, entry, gen, llm, llmCalls, yielded,
                   response, now, admitted, ui>>

\* the count of the client's list: at the limit the thread returns False
Counts(t) ==
    /\ threads[t].pc = "count"
    /\ IF Len(ListOf(requests, TheClient)) >= RATE_LIMIT_REQUESTS
       THEN /\ threads' = [threads EXCEPT ![t] = Idle]
            /\ ret' = Ok(BoolV(FALSE))
            /\ call' = [fn |-> "is_allowed", name |-> TheClient, arg |-> None]
       ELSE /\ threads' = [threads EXCEPT ![t].pc = "add"]
            /\ UNCHANGED <<call, ret>>
    /\ UNCHANGED <<raw, validated, alert, pc, entry, gen, llm, llmCalls, yielded, response,
                   requests, now, admitted, ui>>

\* if client_id not in self.requests
Adds(t) ==
    /\ threads[t].pc = "add"
    /\ threads' = [threads EXCEPT ![t].pc =
                      IF TheClient \in DOMAIN requests THEN "append" ELSE "create"]
    /\ UNCHANGED <<call, ret, raw, validated, alert, pc, entry, gen, llm, llmCalls, yielded,
                   response, requests, now, admitted, ui>>

\* self.requests[client_id] = []
Creates(t) ==
    /\ threads[t].pc = "create"
    /\ requests' = [c \in DOMAIN requests \cup {TheClient} |->
                       IF c = TheClient THEN <<>> ELSE requests[c]]
    /\ threads' = [threads EXCEPT ![t].pc = "append"]
    /\ UNCHANGED <<call, ret, raw, validated, alert, pc, entry, gen, llm, llmCalls, yielded,
                   response, now, admitted, ui>>

\* self.requests[client_id].append(current_time); the thread returns True
Appends(t) ==
    /\ threads[t].pc = "append"
    /\ requests' = [requests EXCEPT ![TheClient] = Append(@, threads[t].current_time)]
    /\ admitted' = [c \in DOMAIN admitted \cup {TheClient} |->
                       IF c = TheClient
                       THEN Append(ListOf(admitted, c), threads[t].current_time)
                       ELSE admitted[c]]
    /\ threads' = [threads EXCEPT ![t] = Idle]
    /\ ret' = Ok(BoolV(TRUE))
    /\ call' = [fn |-> "is_allowed", name |-> TheClient, arg |-> None]
    /\ UNCHANGED <<raw, validated, alert, pc, entry, gen, llm, llmCalls, yielded, response,
                   now, ui>>

\* the clock moves on by a whole window while the threads run
WindowPasses ==
    /\ now < MaxWindows * RATE_LIMIT_WINDOW
    /\ now' = now + RATE_LIMIT_WINDOW
    /\ UNCHANGED <<call, ret, raw, validated, alert, pc, entry, gen, llm, llmCalls, yielded,
                   response, requests, threads, admitted, ui>>

NextLimiterThreads ==
    \/ \E t \in ThreadIds : Cleans(t)
    \/ \E t \in ThreadIds : Stores(t)
    \/ \E t \in ThreadIds : Counts(t)
    \/ \E t \in ThreadIds : Adds(t)
    \/ \E t \in ThreadIds : Creates(t)
    \/ \E t \in ThreadIds : Appends(t)
    \/ WindowPasses

SpecLimiterThreads == InitLimiterThreads /\ [][NextLimiterThreads]_vars

----------------------------------------------------------------------------
(* ui.py: SymptomCheckerUI.  The main loop runs the button's handler and    *)
(* the callbacks queued with root.after; the analysis runs in a thread of   *)
(* its own.  A click that falls between the worker's root.after and its     *)
(* leaving the except clause is not modelled.                               *)

\* the records the form hands over: every flag a boolean, the temperature the
\* float validate_temperature returns, or null
FormRecords ==
    {[basic_info |-> [f \in {"temperature"} |-> v], symptoms |-> s, test_results |-> EmptySection] :
        v \in {None, FloatV(385), FloatV(410)},
        s \in [RuleFlags -> {BoolV(TRUE), BoolV(FALSE)}]}

InitUi ==
    /\ raw = EmptyRecord /\ validated = NotValidated /\ alert = NoAlert
    /\ call = NoCall /\ ret = NoRet
    /\ PipelineIdle

\* _stop_loading
StopLoading(u) == [u EXCEPT !.is_loading = FALSE, !.button = "normal"]

\* _analyze, run by a click: nothing while loading; a form that does not
\* validate ends in a message box; an emergency in the alert; otherwise
\* _start_analysis starts the worker
Analyze ==
    /\ ui.worker \in {"none", "done"}
    /\ call' = [fn |-> "_analyze", name |-> "", arg |-> None]
    /\ IF ui.is_loading
       THEN /\ ret' = Ok(None)
            /\ UNCHANGED <<raw, alert, ui, yielded>>
       ELSE \/ /\ ret' = Raise("ValidationError", "Invalid input")
               /\ UNCHANGED <<raw, alert, ui, yielded>>
            \/ \E user_data \in FormRecords :
                  \E emergency \in {check_emergency(user_data)} :
                      /\ raw' = user_data
                      /\ alert' = emergency
                      /\ IF emergency.state = "raised"
                         THEN /\ ret' = Raise(emergency.err, "Failed to start analysis")
                              /\ UNCHANGED <<ui, yielded>>
                         ELSE /\ ret' = Ok(None)
                              /\ IF emergency.is_emergency
                                 THEN UNCHANGED <<ui, yielded>>
                                 ELSE /\ ui' = [ui EXCEPT !.is_loading = TRUE,
                                                          !.button = "disabled",
                                                          !.worker = "running"]
                                      /\ yielded' = <<>>
    /\ UNCHANGED <<validated, pc, entry, gen, llm, llmCalls, response, requests, now,
                   threads, admitted>>

\* _perform_analysis: a chunk arrives and its display is queued
WorkerYields ==
    /\ ui.worker = "running"
    /\ Len(yielded) < MaxFragments
    /\ yielded' = Append(yielded, "chunk")
    /\ ui' = [ui EXCEPT !.queue = Append(@, "update")]
    /\ UNCHANGED <<call, ret, raw, validated, alert, pc, entry, gen, llm, llmCalls,
                   response, requests, now, threads, admitted>>

\* _perform_analysis: the generator is exhausted, _finalize_analysis is queued
WorkerFinishes ==
    /\ ui.worker = "running"
    /\ ui' = [ui EXCEPT !.queue = Append(@, "finalize"), !.worker = "done"]
    /\ UNCHANGED <<call, ret, raw, validated, alert, pc, entry, gen, llm, llmCalls, yielded,
                   response, requests, now, threads, admitted>>

\* _perform_analysis: analyze_symptoms raises; in the except clause e is
\* bound and the lambda that reads e is queued
WorkerFails ==
    /\ ui.worker = "running"
    /\ ui' = [ui EXCEPT !.queue = Append(@, "error"), !.worker = "in_except",
                        !.e_bound = TRUE]
    /\ UNCHANGED <<call, ret, raw, validated, alert, pc, entry, gen, llm, llmCalls, yielded,
                   response, requests, now, threads, admitted>>

\* the worker leaves the except clause, which unbinds e
WorkerLeavesExcept ==
    /\ ui.worker = "in_except"
    /\ ui' = [ui EXCEPT !.worker = "done", !.e_bound = FALSE]
    /\ UNCHANGED <<call, ret, raw, validated, alert, pc, entry, gen, llm, llmCalls, yielded,
                   response, requests, now, threads, admitted>>

\* the main loop runs the oldest queued callback; the lambda of the error
\* path raises NameError when e is no longer bound, and Tk reports it
MainLoopRuns ==
    /\ ui.queue # <<>>
    /\ LET callback == Head(ui.queue)
           rest == [ui EXCEPT !.queue = Tail(@)]
       IN /\ call' = [fn |-> callback, name |-> "", arg |-> None]
          /\ IF callback = "update" THEN ui' = rest /\ ret' = Ok(None)
             ELSE IF callback = "finalize" THEN ui' = StopLoading(rest) /\ ret' = Ok(None)
             ELSE IF ui.e_bound THEN ui' = StopLoading(rest) /\ ret' = Ok(None)
             ELSE ui' = rest /\ ret' = Raise("NameError", "e")
    /\ UNCHANGED <<raw, validated, alert, pc, entry, gen, llm, llmCalls, yielded,
                   response, requests, now, threads, admitted>>

Worker == WorkerYields \/ WorkerFinishes \/ WorkerFails \/ WorkerLeavesExcept

NextUi ==
    \/ Analyze
    \/ WorkerYields
    \/ WorkerFinishes
    \/ WorkerFails
    \/ WorkerLeavesExcept
    \/ MainLoopRuns

\* the worker thread is scheduled and the main loop keeps running
SpecUi == InitUi /\ [][NextUi]_vars /\ WF_vars(Worker) /\ WF_vars(MainLoopRuns)

----------------------------------------------------------------------------
(* symptom_checker.py and symptom_checker_ui.py: the legacy entry points    *)

\* a check_emergency that compares the temperature without testing it first
LegacyCheckEmergencyUnguarded(symptoms, basic_info) ==
    LET high == PyLess(IntV(40), Get(basic_info, "temperature"))
    IN IF ~high.ok THEN Raise(high.err, "")
       ELSE Ok(<<BoolV(high.val), IF high.val THEN <<"High fever (>40C)">> ELSE <<>> >>)

\* symptom_checker.check_emergency: the tuple (severe, reasons) it returns, or
\* the TypeError of comparing a temperature that is not a number
legacy_check_emergency(symptoms, basic_info) ==
    LET temperature == Get(basic_info, "temperature")
        high == IF Truthy(temperature) THEN PyLess(IntV(40), temperature) ELSE Ok(FALSE)
        confusion == Truthy(Get(symptoms, "confusion")) /\ Truthy(Get(symptoms, "fever"))
        breath == Truthy(Get(symptoms, "shortness_of_breath")) /\ Truthy(Get(symptoms, "chest_pain"))
    IN IF ~high.ok THEN Raise(high.err, "")
       ELSE Ok(<< BoolV(high.val \/ confusion \/ breath),
                  (IF high.val THEN <<"High fever (>40C)">> ELSE <<>>)
                  \o (IF confusion THEN <<"Fever with confusion">> ELSE <<>>)
                  \o (IF breath THEN <<"Shortness of breath with chest pain">> ELSE <<>>) >>)

\* the truth value of a tuple: whether it has an element
TupleTruthy(tuple) == Len(tuple) > 0

\* what check_emergency answered, as an alert
LegacyAlert(emergency) ==
    IF emergency.ok
    THEN [state |-> "ok", is_emergency |-> emergency.val[1].b, reasons |-> emergency.val[2],
          err |-> ""]
    ELSE [state |-> "raised", is_emergency |-> FALSE, reasons |-> <<>>, err |-> emergency.err]

InitLegacy ==
    /\ raw = EmptyRecord /\ validated = NotValidated /\ alert = NoAlert
    /\ call = NoCall /\ ret = NoRet
    /\ PipelineIdle

\* symptom_checker_ui.analyze: `if emergency:` shows the alert and returns,
\* otherwise the loading state is set and the analysis thread started
LegacyAnalyze ==
    /\ pc = "idle"
    /\ \E user_data \in EmergencyRecords :
        \E emergency \in {legacy_check_emergency(user_data.symptoms, user_data.basic_info)} :
            /\ raw' = user_data
            /\ alert' = LegacyAlert(emergency)
            /\ ret' = emergency
            /\ IF ~emergency.ok THEN pc' = "raised" /\ ui' = ui
               ELSE IF TupleTruthy(emergency.val) THEN pc' = "skipped" /\ ui' = ui
               ELSE /\ pc' = "analysing"
                    /\ ui' = [ui EXCEPT !.is_loading = TRUE, !.button = "disabled",
                                        !.worker = "running"]
    /\ entry' = "legacy_ui"
    /\ call' = [fn |-> "analyze", name |-> "", arg |-> None]
    /\ UNCHANGED <<validated, gen, llm, llmCalls, yielded, response, requests, now,
                   threads, admitted>>

\* symptom_checker.__main__: `if not emergency:` gets the analysis, otherwise
\* the analysis is skipped
LegacyMain ==
    /\ pc = "idle"
    /\ \E user_data \in EmergencyRecords :
        \E emergency \in {legacy_check_emergency(user_data.symptoms, user_data.basic_info)} :
            /\ raw' = user_data
            /\ alert' = LegacyAlert(emergency)
            /\ ret' = emergency
            /\ pc' = IF ~emergency.ok THEN "raised"
                     ELSE IF ~TupleTruthy(emergency.val) THEN "analysing" ELSE "skipped"
    /\ entry' = "legacy_main"
    /\ call' = [fn |-> "__main__", name |-> "", arg |-> None]
    /\ UNCHANGED <<validated, gen, llm, llmCalls, yielded, response, requests, now,
                   threads, admitted, ui>>

NextLegacy ==
    \/ LegacyAnalyze
    \/ LegacyMain

SpecLegacy == InitLegacy /\ [][NextLegacy]_vars

----------------------------------------------------------------------------
(* Properties of the emergency engine (SpecEmergency) *)

Temperature(r) == Get(r.basic_info, "temperature")
\* the temperature is unknown (null or missing) or a number
TemperatureTyped(r) == IsNone(Temperature(r)) \/ Temperature(r).t \in {"int", "float"}
\* a flag is set: present and the boolean true
FlagTrue(r, f) == f \in DOMAIN r.symptoms /\ IsBool(r.symptoms[f]) /\ r.symptoms[f].b
\* every rule flag is unknown (null or missing) or a boolean
FlagsTyped(r) == \A f \in RuleFlags : f \in DOMAIN r.symptoms => (IsNone(r.symptoms[f]) \/ IsBool(r.symptoms[f]))

HighFever(r) == Temperature(r).t \in {"int", "float"} /\ Temperature(r).n > 40 * 10
FeverWithConfusion(r) == FlagTrue(r, "confusion") /\ FlagTrue(r, "fever")
BreathAndChest(r) == FlagTrue(r, "shortness_of_breath") /\ FlagTrue(r, "chest_pain")

\* the reasons whose conditions hold, in rule order
ExpectedReasons(r) ==
    (IF HighFever(r) THEN <<"High fever (>40C)">> ELSE <<>>)
    \o (IF FeverWithConfusion(r) THEN <<"Fever with confusion">> ELSE <<>>)
    \o (IF BreathAndChest(r) THEN <<"Shortness of breath with chest pain">> ELSE <<>>)

\* C2: for every record whose temperature is a number or unknown, check_emergency
\* returns exactly the reasons whose conditions hold (temperature > 40; confusion
\* and fever both true; shortness_of_breath and chest_pain both true), in rule
\* order and all together, and is_emergency is true iff there is a reason.
C2_ReasonsAreTheRulesThatHold ==
    (alert.state # "none" /\ TemperatureTyped(raw)) =>
        /\ alert.state = "ok"
        /\ alert.reasons = ExpectedReasons(raw)
        /\ alert.is_emergency <=> (alert.reasons # <<>>)

\* C2 witness: all three reasons are reported together
C2_AllThreeReported ==
    /\ alert.state = "ok" /\ Len(alert.reasons) = 3
    /\ HighFever(raw) /\ FeverWithConfusion(raw) /\ BreathAndChest(raw)

\* C3: on a record whose temperature and flags are each null, missing or of
\* their own type, check_emergency raises nothing and returns a result; with the
\* temperature unknown the high-fever rule does not trigger.
C3_NullFieldsNeverRaise ==
    (alert.state # "none" /\ TemperatureTyped(raw) /\ FlagsTyped(raw)) =>
        /\ alert.state = "ok"
        /\ IsNone(Temperature(raw)) =>
              \A i \in DOMAIN alert.reasons : alert.reasons[i] # "High fever (>40C)"

\* C3 witness: a checked record with a null temperature, a null flag and no symptoms
\* section entry for the other flags
C3_NullRecordChecked ==
    /\ alert.state = "ok"
    /\ "temperature" \in DOMAIN raw.basic_info /\ IsNone(raw.basic_info["temperature"])
    /\ DOMAIN raw.symptoms = {"fever"} /\ IsNone(raw.symptoms["fever"])

\* C4: check_emergency is monotonic: a second call on a record that differs from
\* the first only by further conditions made true reports every reason the first
\* call reported.
C4_Monotonic ==
    [][(pc' = "rechecked" /\ alert.state = "ok" /\ alert'.state = "ok") =>
          \A i \in DOMAIN alert.reasons : \E j \in DOMAIN alert'.reasons :
              alert'.reasons[j] = alert.reasons[i]]_vars

\* C4 witness: a record that gained conditions and now reports two reasons or more
C4_RecheckedWithMoreReasons ==
    pc = "rechecked" /\ alert.state = "ok" /\ Len(alert.reasons) >= 2

----------------------------------------------------------------------------
(* Properties of the field validators (SpecFields) *)

\* the argument is a number, or a string that spells one
IsNumberArg(v) == v.t \in {"int", "float"} \/ (IsStr(v) /\ ParseFloat(v.s).ok)
\* the number it denotes, in tenths
TenthsOf(v) == IF IsStr(v) THEN ParseFloat(v.s).val.n ELSE v.n

\* C5: validate_age returns a for every valid age a in [0,150], given as a number
\* or a numeric string, and fails with ValidationError for every a < 0 and every
\* a > 150, non-integers just outside the bounds included.
C5_AgeContract ==
    (call.fn = "validate_age" /\ IsNumberArg(call.arg)) =>
        LET a == TenthsOf(call.arg) IN
        /\ (MIN_AGE * 10 <= a /\ a <= MAX_AGE * 10 /\ a % 10 = 0) => (ret.ok /\ ret.val = IntV(a \div 10))
        /\ (a < MIN_AGE * 10 \/ a > MAX_AGE * 10) => (~ret.ok /\ ret.err = "ValidationError")

\* C6: validate_weight accepts exactly the weights w with 1 < w <= 500 and
\* rejects every other with ValidationError; a weight of exactly 1 is rejected.
C6_WeightContract ==
    (call.fn = "validate_weight" /\ IsNumberArg(call.arg)) =>
        LET w == TenthsOf(call.arg) IN
        /\ ret.ok <=> (MIN_WEIGHT * 10 < w /\ w <= MAX_WEIGHT * 10)
        /\ ~ret.ok => ret.err = "ValidationError"

\* C10: validate_duration accepts exactly the strings made of an integer
\* optionally followed by a unit word: one written without surplus whitespace is
\* returned as given, and a string that is not of this form is rejected, so that
\* none becomes an accepted value by whitespace collapsing or length truncation.
C10_DurationContract ==
    (call.fn = "validate_duration" /\ IsStr(call.arg) /\ call.arg.s # <<>>) =>
        /\ (MatchesDuration(call.arg.s) /\ call.arg.s = CollapseWhitespace(call.arg.s)) =>
              (ret.ok /\ ret.val = call.arg)
        /\ ~MatchesDuration(call.arg.s) => ~ret.ok

----------------------------------------------------------------------------
(* Properties of validate_user_data (SpecRecord) *)

\* C7: every numeric lab value of a returned canonical record is null or >= 0.
C7_LabsNonNegative ==
    validated.state = "ok" =>
        \A f \in NumericTests :
            IsNone(validated.rec.test_results[f]) \/ validated.rec.test_results[f].n >= 0

\* the constraints of the canonical record (models.py)
CanonicalBasicInfo(b) ==
    /\ IsNone(b["age"]) \/ (b["age"].t = "int" /\ MIN_AGE * 10 <= b["age"].n /\ b["age"].n <= MAX_AGE * 10)
    /\ IsNone(b["gender"]) \/ (IsStr(b["gender"]) /\ b["gender"].s \in {<<"M">>, <<"F">>})
    /\ IsNone(b["weight"]) \/ (b["weight"].t = "float" /\ MIN_WEIGHT * 10 < b["weight"].n
                                  /\ b["weight"].n <= MAX_WEIGHT * 10)
    /\ IsNone(b["temperature"]) \/ (b["temperature"].t = "float"
                                       /\ MIN_TEMPERATURE * 10 <= b["temperature"].n
                                       /\ b["temperature"].n <= MAX_TEMPERATURE * 10)
    /\ IsNone(b["duration"]) \/ (IsStr(b["duration"]) /\ Len(b["duration"].s) <= DURATION_MAX_LENGTH)
    /\ IsBool(b["chronic_diseases"])

CanonicalSymptoms(s) ==
    /\ \A f \in Range(SymptomFlags) : IsBool(s[f])
    /\ IsNone(s["fever_duration"]) \/ (s["fever_duration"].t = "int" /\ s["fever_duration"].n >= 0)
    /\ IsNone(s["cough_type"])
       \/ (IsStr(s["cough_type"]) /\ s["cough_type"].s \in
               {<<"d", "r", "y">>, <<"p", "r", "o", "d", "u", "c", "t", "i", "v", "e">>})

CanonicalTests(x) ==
    /\ \A f \in NumericTests : IsNone(x[f]) \/ (x[f].t = "float" /\ x[f].n >= 0)
    /\ \A f \in BooleanTests : IsNone(x[f]) \/ IsBool(x[f])

\* the name an error message gives the field it is about
NameInMessage(f) ==
    CASE f = "age" -> "Age"
      [] f = "gender" -> "Gender"
      [] f = "weight" -> "Weight"
      [] f = "temperature" -> "Temperature"
      [] f = "duration" -> "Duration"
      [] f = "cough_type" -> "Cough type"
      [] OTHER -> f

\* C9: validate_user_data either returns a complete canonical record in which
\* every vitals, symptom and lab field satisfies its constraint, or fails with a
\* validation error that identifies the failing field by name.
C9_AllOrNothing ==
    /\ validated.state = "ok" =>
          /\ CanonicalBasicInfo(validated.rec.basic_info)
          /\ CanonicalSymptoms(validated.rec.symptoms)
          /\ CanonicalTests(validated.rec.test_results)
    /\ validated.state = "raised" =>
          /\ validated.err = "ValidationError"
          /\ validated.label = NameInMessage(validated.field)

----------------------------------------------------------------------------
(* Properties of a request through analyze_symptoms, POST /analyze or       *)
(* SymptomCLI.run (Spec)                                                    *)

\* the outcome v of validate_user_data is a record that triggers a rule
TriggersRule(v) == v.state = "ok" /\ ExpectedReasons(v.rec) # <<>>
\* the outcome v of validate_user_data is a record that triggers no rule
TriggersNoRule(v) == v.state = "ok" /\ ExpectedReasons(v.rec) = <<>>

\* C1: analyze_symptoms checks for an emergency after validation and before any
\* generation: for a record whose validated form triggers a rule, generate_analysis
\* is never invoked, no fragment is yielded and the caller receives
\* EmergencyDetectedError; POST /analyze and SymptomCLI.run return the reasons
\* without creating the analysis; generation only ever starts on a record that
\* validated and triggers no rule.
C1_EmergencySkipsAnalysis ==
    /\ (entry = "direct" /\ TriggersRule(validate_user_data(raw))) =>
          /\ llmCalls = 0 /\ yielded = <<>>
          /\ pc = "done" => response = Outcome("raised", "EmergencyDetectedError")
    /\ (entry \in {"api", "cli"} /\ TriggersRule(validated)) =>
          /\ gen = NoGen /\ llmCalls = 0 /\ yielded = <<>>
          /\ pc = "done" =>
                /\ response.emergency /\ response.reasons = ExpectedReasons(validated.rec)
                /\ entry = "api" => response.status = 200
    /\ llmCalls > 0 => TriggersNoRule(validate_user_data(gen.input))

\* C1 witness: a consumer of analyze_symptoms received EmergencyDetectedError for a
\* valid record with a high temperature, and nothing was generated
C1_EmergencyOutcomeReceived ==
    /\ entry = "direct" /\ pc = "done"
    /\ response = Outcome("raised", "EmergencyDetectedError")
    /\ HighFever(raw) /\ llmCalls = 0 /\ yielded = <<>>

\* the record's duration is a string with an HTML tag, a script-like substring or
\* a control character
SuspiciousDuration(r) ==
    /\ "duration" \in DOMAIN r.basic_info
    /\ IsStr(r.basic_info["duration"])
    /\ Suspicious(r.basic_info["duration"].s)

\* C8: a suspicious duration makes the record fail as a validation failure:
\* analyze_symptoms raises ValidationError to its caller, and POST /analyze, once it
\* validates the body, answers 400 'Invalid input data'.
C8_SuspiciousDurationIsValidationFailure ==
    (SuspiciousDuration(raw) /\ pc = "done") =>
        /\ entry = "direct" => response = Outcome("raised", "ValidationError")
        /\ (entry = "api" /\ validated.state # "none") =>
              response = Http(400, "Invalid input data", FALSE, <<>>)

----------------------------------------------------------------------------
(* Properties of compare_with_diseases (SpecCompare) *)

Compared == pc \in {"compared", "recompared"}

\* every lab value of the record is null, a number or a boolean
LabsTyped(r) == \A k \in DOMAIN r.test_results : ~IsStr(r.test_results[k])

CatalogIndex(disease_name) ==
    CHOOSE i \in DOMAIN PREDEFINED_DISEASES : PREDEFINED_DISEASES[i].name = disease_name

\* the keys of a profile section that the record gives a value to
SharedKeys(section, profile_section) ==
    {k \in DOMAIN profile_section \cap DOMAIN section : ~IsNone(section[k])}

\* C11: for every record whose lab values are numbers, booleans or null and every
\* profile, the three ratios and overall_match = 0.5*symptom_match + 0.3*test_match
\* + 0.2*basic_match lie in [0,1], and a dimension in which the record shares no
\* key with the profile yields 0; no error is raised.
C11_ScoresInUnitInterval ==
    (Compared /\ LabsTyped(raw)) =>
        /\ ret.ok
        /\ \A i \in DOMAIN ret.val :
            LET res == ret.val[i]
                profile == PREDEFINED_DISEASES[CatalogIndex(res.disease)]
            IN /\ res.symptom_match \in 0..2520
               /\ res.test_match \in 0..2520
               /\ res.basic_match \in 0..2520
               /\ res.overall_match \in 0..25200
               /\ res.overall_match = 5 * res.symptom_match + 3 * res.test_match + 2 * res.basic_match
               /\ DOMAIN profile.symptoms \cap DOMAIN raw.symptoms = {} => res.symptom_match = 0
               /\ SharedKeys(raw.test_results, profile.test_results) = {} => res.test_match = 0
               /\ SharedKeys(raw.basic_info, profile.basic_info) = {} => res.basic_match = 0

\* C11 witness: a record whose only symptom key is in no profile is compared; a
\* profile scores 0 on symptoms and 1 on basic information
C11_EmptyOverlapScored ==
    /\ Compared /\ ret.ok
    /\ DOMAIN raw.symptoms = {"chest_pain"}
    /\ \E i \in DOMAIN ret.val : ret.val[i].symptom_match = 0 /\ ret.val[i].basic_match = 2520

\* the results are the five profiles, by non-increasing overall_match, equal
\* scores in catalog order
RankedInOrder(results) ==
    /\ Len(results) = Len(PREDEFINED_DISEASES)
    /\ {results[i].disease : i \in DOMAIN results} =
          {PREDEFINED_DISEASES[i].name : i \in DOMAIN PREDEFINED_DISEASES}
    /\ \A i, j \in DOMAIN results :
          i < j => \/ results[i].overall_match > results[j].overall_match
                   \/ /\ results[i].overall_match = results[j].overall_match
                      /\ CatalogIndex(results[i].disease) < CatalogIndex(results[j].disease)

\* C12: compare_with_diseases returns one result per catalog profile, all five,
\* by non-increasing overall_match with equal scores in catalog order, and a
\* second call with the same record returns the same list.
C12_RankedStableDeterministic ==
    /\ []((Compared /\ ret.ok) => RankedInOrder(ret.val))
    /\ [][pc' = "recompared" => ret' = ret]_vars

\* C12 witness: a second call returned a ranking that has both a tie and a
\* strict descent, and a profile declared later ranked above an earlier one
C12_TieAndDescentRanked ==
    /\ pc = "recompared" /\ ret.ok
    /\ \E i \in 1..(Len(ret.val) - 1) : ret.val[i].overall_match = ret.val[i + 1].overall_match
    /\ \E i \in 1..(Len(ret.val) - 1) :
          /\ ret.val[i].overall_match > ret.val[i + 1].overall_match
          /\ CatalogIndex(ret.val[i].disease) > CatalogIndex(ret.val[i + 1].disease)

\* the record of the example: the six symptoms of viral fever true, a fever of 3
\* days, a temperature of 38.5 and no test results
ViralFeverExample(r) ==
    /\ \A f \in ViralFeverFlags : FlagTrue(r, f)
    /\ \A f \in DOMAIN r.symptoms \ (ViralFeverFlags \cup {"fever_duration"}) :
          ~(IsBool(r.symptoms[f]) /\ r.symptoms[f].b)
    /\ "fever_duration" \in DOMAIN r.symptoms /\ r.symptoms["fever_duration"] = IntV(3)
    /\ "temperature" \in DOMAIN r.basic_info /\ r.basic_info["temperature"] = FloatV(385)
    /\ DOMAIN r.test_results = {}

\* C13: for the record of the example compare_with_diseases ranks Viral Fever first.
C13_ViralFeverRanksFirst ==
    (Compared /\ ViralFeverExample(raw)) => (ret.ok /\ ret.val[1].disease = "Viral Fever")

\* C13 witness: the record of the example, with just those seven symptom keys, is ranked
C13_ExampleRanked ==
    /\ Compared /\ ViralFeverExample(raw) /\ ret.ok
    /\ DOMAIN raw.symptoms = ViralFeverFlags \cup {"fever_duration"}
    /\ DOMAIN raw.basic_info = {"temperature"}

----------------------------------------------------------------------------
(* Properties of MockAnalyzer (SpecFallback, SpecRecord) *)

Holds(section, key) == key \in DOMAIN section /\ section[key] = BoolV(TRUE)

Predicts(predictions, disease, confidence) ==
    \E i \in DOMAIN predictions :
        predictions[i].disease = disease /\ predictions[i].confidence = confidence

Names(predictions) == {predictions[i].disease : i \in DOMAIN predictions}

DengueExpected(r) ==
    /\ Holds(r.symptoms, "fever") /\ Holds(r.symptoms, "rash") /\ Holds(r.symptoms, "recent_travel")
    /\ Holds(r.test_results, "Dengue")
    /\ "Platelets" \in DOMAIN r.test_results
    /\ IsNumeric(r.test_results["Platelets"]) /\ r.test_results["Platelets"].n < 1000000

ViralFeverExpected(r) ==
    /\ Holds(r.symptoms, "fever") /\ Holds(r.symptoms, "fatigue") /\ Holds(r.symptoms, "headache")
    /\ ~Holds(r.test_results, "Dengue") /\ ~Holds(r.test_results, "Malaria")

MalariaExpected(r) ==
    Holds(r.symptoms, "fever") /\ Holds(r.symptoms, "recent_travel") /\ Holds(r.test_results, "Malaria")

TyphoidExpected(r) ==
    /\ Holds(r.symptoms, "fever") /\ Holds(r.symptoms, "nausea") /\ Holds(r.symptoms, "diarrhea")
    /\ Holds(r.test_results, "Typhoid")

\* the rules whose conditions the record meets, with their confidences
ExpectedConfidences(r) ==
    (IF DengueExpected(r) THEN {75} ELSE {}) \cup (IF ViralFeverExpected(r) THEN {60} ELSE {})
    \cup (IF MalariaExpected(r) THEN {70} ELSE {}) \cup (IF TyphoidExpected(r) THEN {65} ELSE {})

RECURSIVE LargestOf(_, _)
LargestOf(S, k) ==
    IF S = {} \/ k = 0 THEN {}
    ELSE {Greatest(S)} \cup LargestOf(S \ {Greatest(S)}, k - 1)

\* C15: the analysis lists at least one and at most three conditions, by
\* non-increasing confidence, and they are the highest-confidence entries among
\* all the rules the record matches.
C15_TopThreeByConfidence ==
    (pc = "analysed" /\ ret.ok) =>
        LET listed == ret.val.conditions
        IN /\ Len(listed) \in 1..3
           /\ \A i, j \in DOMAIN listed : i < j => listed[i].confidence >= listed[j].confidence
           /\ {listed[i].confidence : i \in DOMAIN listed} =
                 IF ExpectedConfidences(raw) = {} THEN {40} ELSE LargestOf(ExpectedConfidences(raw), 3)

\* C15 witness: three rules matched and are listed, Dengue first
C15_ThreeRulesListed ==
    /\ pc = "analysed" /\ ret.ok
    /\ Len(ret.val.conditions) = 3
    /\ ret.val.conditions[1].disease = "Dengue"
    /\ ret.val.conditions[3].disease = "Typhoid"

\* C16: for every record validate_user_data returns, get_mock_analysis returns
\* its text without raising.
C16_FallbackIsTotal ==
    (pc = "analysed" /\ validated.state = "ok") => ret.ok

----------------------------------------------------------------------------
(* Properties of LLMService.generate_analysis and of its callers (Spec) *)

\* generate_analysis raised
GenerationFailed == llmCalls > 0 /\ llm.err # ""

\* C17: whenever generate_analysis raises for a validated, non-emergency record,
\* SymptomCLI.run and POST /analyze give the user the fallback analysis instead
\* of an error.
C17_FailedGenerationGetsFallback ==
    (entry \in {"api", "cli"} /\ pc = "done" /\ GenerationFailed) =>
        (response.kind = "fallback" /\ response.error = "")

\* the backends generate_analysis may call: the fallback when it is available, the
\* primary when it is available and use_mock is not set
Usable(l) ==
    {b \in {"mock"} : l.fallback_ok} \cup {b \in {"openrouter"} : l.primary_ok /\ ~l.use_mock}

\* C18: generate_analysis uses the primary backend unless use_mock is set or the
\* primary is unavailable, and then uses the mock backend and never calls the
\* primary; when the primary raises an APIError and the mock backend is available
\* it continues with the mock backend; it raises, and then an APIError, only when
\* no backend is available or every usable backend has failed.
C18_BackendSelection ==
    llmCalls > 0 =>
        /\ (llm.use_mock \/ ~llm.primary_ok) =>
              /\ llm.primary_calls = 0
              /\ \A i \in DOMAIN yielded : yielded[i] = "mock"
              /\ llm.err = "" => llm.backend = "mock"
        /\ (~llm.use_mock /\ llm.primary_ok) =>
              /\ llm.primary_calls = 1
              /\ "openrouter" \notin llm.failed => (llm.backend = "openrouter" /\ llm.err = "")
        /\ ("openrouter" \in llm.failed /\ llm.fallback_ok) =>
              /\ llm.fallback_calls = 1
              /\ "mock" \notin llm.failed => (llm.backend = "mock" /\ llm.err = "")
        /\ llm.err # "" =>
              /\ Catches("APIError", llm.err)
              /\ Usable(llm) \subseteq llm.failed
        /\ gen.pc = "raised" <=> llm.err # ""

\* C18 witness: the primary backend yielded a fragment and raised, and the
\* analysis finished with the fragments of the mock backend
C18_ContinuedWithMock ==
    /\ gen.pc = "finished"
    /\ llm.failed = {"openrouter"} /\ llm.primary_calls = 1 /\ llm.fallback_calls = 1
    /\ yielded = <<"openrouter">> \o Rep("mock", MaxFragments)

----------------------------------------------------------------------------
(* Properties of validate_test_result and of the conditional detail fields  *)
(* (SpecFields, SpecRecord)                                                 *)

TrueTokens == {<<"y">>, <<"y", "e", "s">>, <<"t", "r", "u", "e">>, <<"1">>, <<"p", "o", "s", "i", "t", "i", "v", "e">>}
FalseTokens == {<<"n">>, <<"n", "o">>, <<"f", "a", "l", "s", "e">>, <<"0">>, <<"n", "e", "g", "a", "t", "i", "v", "e">>}

\* C19: for Malaria, Dengue and Typhoid validate_test_result returns a native
\* boolean as it is, true for y, yes, true, 1 and positive, false for n, no,
\* false, 0 and negative, whatever the case, and fails with ValidationError for
\* every other non-empty value; for every other field name a value that is
\* returned is a number.
C19_BooleanLabTokens ==
    (call.fn = "validate_test_result" /\ ~IsNone(call.arg) /\ call.arg # StrV(<<>>)) =>
        IF call.name \in BooleanTests
        THEN IF IsBool(call.arg) THEN ret = Ok(call.arg)
             ELSE IF IsStr(call.arg) /\ Lower(Strip(call.arg.s)) \in TrueTokens THEN ret = Ok(BoolV(TRUE))
             ELSE IF IsStr(call.arg) /\ Lower(Strip(call.arg.s)) \in FalseTokens THEN ret = Ok(BoolV(FALSE))
             ELSE ~ret.ok /\ ret.err = "ValidationError"
        ELSE ret.ok => ret.val.t = "float"

\* C20: in every record validate_user_data returns, fever_duration is non-null
\* only if fever is true and cough_type is non-null only if cough is true.
C20_DetailsOnlyWithTheirSymptom ==
    validated.state = "ok" =>
        /\ ~IsNone(validated.rec.symptoms["fever_duration"]) => validated.rec.symptoms["fever"] = BoolV(TRUE)
        /\ ~IsNone(validated.rec.symptoms["cough_type"]) => validated.rec.symptoms["cough"] = BoolV(TRUE)

----------------------------------------------------------------------------
(* Properties of the three ratios of the comparator (SpecCompare) *)

\* the result compare_with_diseases returned for the profile
ResultFor(results, disease_name) ==
    results[CHOOSE i \in DOMAIN results : results[i].disease = disease_name]

\* C21: calculate_symptom_match counts a profile symptom key as checked only
\* when the record holds a non-null value for it, and a checked key as matched
\* only when that value equals the expected one: symptom_match is the share of
\* matched keys among the keys with a non-null value.
C21_NullSymptomsAreNotChecked ==
    (Compared /\ ret.ok) =>
        \A i \in DOMAIN PREDEFINED_DISEASES :
            ResultFor(ret.val, PREDEFINED_DISEASES[i].name).symptom_match =
                Ratio(Cardinality({k \in SharedKeys(raw.symptoms, PREDEFINED_DISEASES[i].symptoms) :
                                      PyEq(raw.symptoms[k], PREDEFINED_DISEASES[i].symptoms[k])}),
                      Cardinality(SharedKeys(raw.symptoms, PREDEFINED_DISEASES[i].symptoms)))

\* a value of the record's basic_info that float() does not convert
Unconvertible(section, key) ==
    key \in DOMAIN section /\ IsStr(section[key]) /\ ~ParseFloat(section[key].s).ok

\* C22: in calculate_basic_info_match a value that cannot be converted to a
\* number is left out of both counts while the other fields are still scored;
\* 0 <= matches <= total_checks holds after every field, and the ratio returned
\* is matches / total_checks, 0 when total_checks is 0.
C22_FailedConversionIsExcluded ==
    (Compared /\ ret.ok) =>
        \A i \in DOMAIN PREDEFINED_DISEASES :
            LET profile == PREDEFINED_DISEASES[i]
                counts == BasicInfoCounts(raw.basic_info, profile.basic_info, Len(BasicInfoOrder))
                final == counts[Len(counts)]
                scored == {k \in SharedKeys(raw.basic_info, profile.basic_info) :
                              ~Unconvertible(raw.basic_info, k)}
            IN /\ \A n \in DOMAIN counts : 0 <= counts[n].matches /\ counts[n].matches <= counts[n].total_checks
               /\ final.total_checks = Cardinality(scored)
               /\ final.matches = Cardinality({k \in scored :
                       InRange(UserValue(raw.basic_info[k]).val, profile.basic_info[k]).val.b})
               /\ ResultFor(ret.val, profile.name).basic_match = Ratio(final.matches, final.total_checks)
               /\ final.total_checks = 0 => ResultFor(ret.val, profile.name).basic_match = 0

\* C22 witness: the duration "3 days" was left out and the temperature alone
\* gave Viral Fever a basic_match of 1; without a temperature the ratio was 0
C22_DurationLeftOut ==
    /\ Compared /\ ret.ok
    /\ Unconvertible(raw.basic_info, "duration")
    /\ \/ /\ Get(raw.basic_info, "temperature") = FloatV(385)
          /\ ResultFor(ret.val, "Viral Fever").basic_match = 2520
       \/ /\ "temperature" \notin DOMAIN raw.basic_info
          /\ ResultFor(ret.val, "Viral Fever").basic_match = 0

----------------------------------------------------------------------------
(* Properties of the suggested actions of get_mock_analysis (SpecRecord) *)

Suggests(analysis, line) == \E i \in DOMAIN analysis.actions : analysis.actions[i] = line

\* C23: the analysis get_mock_analysis returns for a validated record has the
\* monitoring advice iff temperature > 39, the hydration advice iff fever is
\* true, the consult-professional advice always, and the follow-up-tests advice
\* iff at least one lab value of the record is non-null.
C23_SuggestedActions ==
    (pc = "analysed" /\ validated.state = "ok" /\ ret.ok) =>
        /\ Suggests(ret.val, "Monitor temperature closely") <=>
              (IsNumeric(validated.rec.basic_info["temperature"])
                  /\ NumOf(validated.rec.basic_info["temperature"]) > 390)
        /\ Suggests(ret.val, "Stay hydrated and rest") <=> validated.rec.symptoms["fever"] = BoolV(TRUE)
        /\ Suggests(ret.val, "Consult a healthcare professional for proper diagnosis")
        /\ Suggests(ret.val, "Follow up with additional tests if recommended") <=>
              \E k \in DOMAIN validated.rec.test_results : ~IsNone(validated.rec.test_results[k])

----------------------------------------------------------------------------
(* Properties of RateLimiter.is_allowed (SpecLimiter) *)

\* the timestamps of a list that lie in the window (at - RATE_LIMIT_WINDOW, at]
InWindow(times, at) ==
    {j \in DOMAIN times : times[j] > at - RATE_LIMIT_WINDOW /\ times[j] <= at}

Recent(times, at) == SelectSeq(times, LAMBDA req_time : req_time > at - RATE_LIMIT_WINDOW)

\* what a call for client_id at the time of the clock must leave behind
AnswersAsSpecified(client_id) ==
    /\ ret' = Ok(BoolV(Len(Recent(ListOf(requests, client_id), now)) < RATE_LIMIT_REQUESTS))
    /\ ListOf(requests', client_id) =
          IF ret'.val.b THEN Append(Recent(ListOf(requests, client_id), now), now)
          ELSE Recent(ListOf(requests, client_id), now)
    /\ ListOf(admitted', client_id) =
          IF ret'.val.b THEN Append(ListOf(admitted, client_id), now) ELSE ListOf(admitted, client_id)
    /\ \A c \in Clients \ {client_id} :
          ListOf(requests', c) = ListOf(requests, c) /\ ListOf(admitted', c) = ListOf(admitted, c)

\* C24: called one request after the other with a clock that never goes back,
\* is_allowed drops the timestamps not newer than now - RATE_LIMIT_WINDOW, admits
\* the request iff fewer than RATE_LIMIT_REQUESTS remain, records admitted
\* requests only and leaves the other clients' lists as they are; a client's
\* list never exceeds RATE_LIMIT_REQUESTS entries and no window
\* (t - RATE_LIMIT_WINDOW, t] holds more than RATE_LIMIT_REQUESTS admitted
\* requests of one client.
C24_AtMostTenPerWindow ==
    /\ [](\A c \in DOMAIN admitted :
            /\ Len(ListOf(requests, c)) <= RATE_LIMIT_REQUESTS
            /\ \A i \in DOMAIN admitted[c] :
                  Cardinality(InWindow(admitted[c], admitted[c][i])) <= RATE_LIMIT_REQUESTS
            /\ \E k \in 0..Len(admitted[c]) :
                  ListOf(requests, c) = SubSeq(admitted[c], k + 1, Len(admitted[c])))
    /\ [][now' = now => \E client_id \in Clients : AnswersAsSpecified(client_id)]_vars

\* C24 witness: a client was admitted more than RATE_LIMIT_REQUESTS times in
\* all, its old timestamps dropped, while the other client's list was kept
C24_AdmittedAgainAfterTheWindow ==
    \E c \in DOMAIN admitted :
        /\ Len(admitted[c]) > RATE_LIMIT_REQUESTS
        /\ Len(ListOf(requests, c)) = 1
        /\ ret = Ok(BoolV(TRUE)) /\ call.name = c

\* how often a list holds a timestamp
CountOf(times, at) == Cardinality({j \in DOMAIN times : times[j] = at})

\* C25: with several request threads in is_allowed for the same client at
\* once, the client's list never holds more than RATE_LIMIT_REQUESTS
\* timestamps of the window, no window holds more than RATE_LIMIT_REQUESTS
\* admitted requests, and the timestamp of every request admitted in the
\* window is in the list.
C25_LimiterHoldsUnderThreads ==
    \A c \in DOMAIN admitted :
        /\ Cardinality(InWindow(ListOf(requests, c), now)) <= RATE_LIMIT_REQUESTS
        /\ \A i \in DOMAIN admitted[c] :
              Cardinality(InWindow(admitted[c], admitted[c][i])) <= RATE_LIMIT_REQUESTS
        /\ \A i \in InWindow(admitted[c], now) :
              CountOf(admitted[c], admitted[c][i]) <= CountOf(ListOf(requests, c), admitted[c][i])

----------------------------------------------------------------------------
(* Properties of the desktop UI (SpecUi) *)

\* C26: once an analysis has been started (is_loading true, the button
\* disabled) the loading state is eventually cleared (is_loading false, the
\* button enabled again), whether the analysis completes or raises.
C26_LoadingEventuallyCleared ==
    (ui.is_loading /\ ui.button = "disabled") ~> (~ui.is_loading /\ ui.button = "normal")

----------------------------------------------------------------------------
(* Properties of the legacy entry points (SpecLegacy) *)

\* a record as the legacy collectors build it and the legacy entry point has
\* handled it
LegacyHandled == entry \in {"legacy_ui", "legacy_main"} /\ FlagsTyped(raw) /\ TemperatureTyped(raw)

\* C27: in the legacy entry points the analysis is started iff
\* check_emergency reports no emergency for the collected record.
C27_LegacyAnalysisIffNoEmergency ==
    LegacyHandled => (alert.state = "ok" /\ (pc = "analysing" <=> ~alert.is_emergency))

\* C29: for a record whose flags are booleans or absent and whose temperature
\* is a number or null, the legacy check_emergency and
\* SymptomAnalyzer.check_emergency return the same emergency boolean and the
\* same reasons in the same order.
C29_CheckersAgree ==
    LegacyHandled => alert = check_emergency(raw)

\* C29 witness: a typed record on which both checkers give two reasons
C29_TwoReasonsFromBoth ==
    /\ LegacyHandled
    /\ alert.is_emergency
    /\ alert.reasons = <<"High fever (>40C)", "Fever with confusion">>
    /\ check_emergency(raw).reasons = alert.reasons

----------------------------------------------------------------------------
(* validate_user_data applied to its own output (SpecRecord) *)

\* C28: for every input on which validate_user_data succeeds, validating the
\* result again succeeds and gives the same record.
C28_ValidationIsIdempotent ==
    pc = "revalidated" => (ret.ok /\ ret.val = validated.rec)

----------------------------------------------------------------------------
(* The fragments of one generate_analysis call (Spec) *)

\* how often generate_response of the mock backend was called: once when
\* generate_analysis chose it at the start, and once more from the except clause
MockInvocations(l) ==
    l.fallback_calls
    + (IF llmCalls > 0 /\ l.fallback_ok /\ (l.use_mock \/ ~l.primary_ok) THEN 1 ELSE 0)

\* C30: the fragments of one generate_analysis call come from a single
\* backend, fragments of a primary backend that then fails are never followed
\* by fragments of the fallback backend, and generate_response of the fallback
\* backend is called at most once.
C30_FragmentsFromOneBackend ==
    /\ \A i, j \in DOMAIN yielded : yielded[i] = yielded[j]
    /\ MockInvocations(llm) <= 1

====
